---- MODULE Spec2Model ----
(***************************************************************************)
(* AvMonitor (plugins.v2/avmonitor/__init__.py): a source tree of title    *)
(* folders is mirrored by hardlinks into a destination tree grouped by a   *)
(* classification key.  The model has the watcher thread of the source     *)
(* root, the watcher thread of the destination root and the threads that   *)
(* run sync_all, the module-level lock, the Dedup Cache (_synced_folders)  *)
(* and both directory trees.                                               *)
(*                                                                         *)
(* Strings are sequences of one-character strings, so that lower(),        *)
(* upper(), endswith(), Path.stem, the glob patterns and the regular       *)
(* expression are computed character by character.  A path below a mapped  *)
(* root is the sequence of its segments.                                   *)
(***************************************************************************)
EXTENDS Naturals, Integers, Sequences, FiniteSets, TLC

(***************************************************************************)
(* Characters                                                              *)
(***************************************************************************)

\* The ASCII characters the model's names are written with, in code point order.
Alphabet ==
    << "#", "-", ".",
       "0", "1", "2", "3", "4", "5", "6", "7", "8", "9", "@",
       "A", "B", "C", "D", "E", "F", "G", "H", "I", "J", "K", "L", "M",
       "N", "O", "P", "Q", "R", "S", "T", "U", "V", "W", "X", "Y", "Z", "_",
       "a", "b", "c", "d", "e", "f", "g", "h", "i", "j", "k", "l", "m",
       "n", "o", "p", "q", "r", "s", "t", "u", "v", "w", "x", "y", "z" >>

Chars == { Alphabet[i] : i \in 1..Len(Alphabet) }

\* The rank of a character in code point order.
Ord == [ c \in Chars |-> CHOOSE i \in 1..Len(Alphabet) : Alphabet[i] = c ]

IsUpperChar(c) == Ord[c] >= Ord["A"] /\ Ord[c] <= Ord["Z"]
IsLowerChar(c) == Ord[c] >= Ord["a"] /\ Ord[c] <= Ord["z"]
IsDigit(c) == Ord[c] >= Ord["0"] /\ Ord[c] <= Ord["9"]
IsAlnum(c) == IsUpperChar(c) \/ IsLowerChar(c) \/ IsDigit(c)

\* str.lower() and str.upper() on one character.
LowerChar(c) == IF IsUpperChar(c) THEN Alphabet[Ord[c] - Ord["A"] + Ord["a"]] ELSE c
UpperChar(c) == IF IsLowerChar(c) THEN Alphabet[Ord[c] - Ord["a"] + Ord["A"]] ELSE c

\* str.lower() on a string.
Lower(s) == [ i \in 1..Len(s) |-> LowerChar(s[i]) ]

\* str.endswith(suffix).
EndsWith(s, suffix) ==
    /\ Len(suffix) <= Len(s)
    /\ SubSeq(s, Len(s) - Len(suffix) + 1, Len(s)) = suffix

\* The position of the last "." of a name, 0 when it has none.
LastDot(s) ==
    IF \E i \in 1..Len(s) : s[i] = "."
    THEN CHOOSE i \in 1..Len(s) : s[i] = "." /\ \A j \in (i+1)..Len(s) : s[j] # "."
    ELSE 0

\* PurePath.stem: the name without its last suffix; a leading or a trailing dot
\* starts no suffix.
Stem(s) ==
    IF LastDot(s) > 1 /\ LastDot(s) < Len(s)
    THEN SubSeq(s, 1, LastDot(s) - 1)
    ELSE s

\* s < t in the order of Python's string comparison (code points, then length).
LexLess(s, t) ==
    \E k \in 1..(Len(t)) :
        /\ \A j \in 1..(k-1) : j <= Len(s) /\ s[j] = t[j]
        /\ k - 1 <= Len(s)
        /\ IF k <= Len(s) THEN Ord[s[k]] < Ord[t[k]] ELSE TRUE
        /\ (k > Len(s) \/ s[k] # t[k])

\* The least name of a non-empty set of names.
LexMin(names) == CHOOSE x \in names : \A y \in names \ { x } : LexLess(x, y)

(***************************************************************************)
(* Classification key (_process_forward_link, lines 186-188)                *)
(***************************************************************************)

\* The fallback bucket; the source's literal is a two-character CJK string.
Fallback == "other"

PPVMarker == << "-", "p", "p", "v" >>

\* re.match(r'^([a-zA-Z0-9]+(?:-PPV)?)-?(\d+)', av_name, re.I) finds a match:
\* an alphanumeric run of length i, then optionally "-PPV" in any case, then
\* optionally "-", then at least one digit.  The engine backtracks over every
\* length of the run, so a match exists iff some decomposition does.
ReMatch(av_name) ==
    \E i \in 1..Len(av_name) :
        /\ \A k \in 1..i : IsAlnum(av_name[k])
        /\ \E p \in {0, Len(PPVMarker)} :
            /\ p > 0 => /\ i + p <= Len(av_name)
                        /\ Lower(SubSeq(av_name, i + 1, i + p)) = PPVMarker
            /\ \E d \in {0, 1} :
                /\ d = 1 => /\ i + p + 1 <= Len(av_name)
                            /\ av_name[i + p + 1] = "-"
                /\ i + p + d + 1 <= Len(av_name)
                /\ IsDigit(av_name[i + p + d + 1])

\* first_char = match.group(1)[0].upper() if match else fallback.  Group 1
\* starts at the first character of the name.
first_char(av_name) ==
    IF ReMatch(av_name) THEN UpperChar(av_name[1]) ELSE Fallback


(***************************************************************************)
(* Names and paths                                                         *)
(***************************************************************************)

\* Title folder names, among them two of the names of the spec's examples.
T_ABC == << "A", "B", "C", "-", "1", "2", "3" >>
T_NUM == << "9", "9", "9", "9", "9" >>
T_FC2 == << "F", "C", "2", "-", "P", "P", "V", "-", "7", "6", "5", "4", "3", "2", "1" >>
TitleSeq == << T_ABC, T_NUM, T_FC2 >>

\* How many of the title names of TitleSeq the source tree may hold.
NumTitles == 1

Titles == { TitleSeq[i] : i \in 1..NumTitles }

\* The one collection ("actor") directory of the source root.
Actor == << "A", "c", "t", "o", "r", "X" >>

\* A second collection directory of the source root; the back-link handler
\* looks into every collection for the title folder.
Actor2 == << "A", "c", "t", "o", "r", "Y" >>
Collections == { Actor, Actor2 }

\* File names of a title folder.
F_a_strm == << "a", ".", "s", "t", "r", "m" >>
F_b_strm == << "b", ".", "s", "t", "r", "m" >>
F_B_strm == << "B", ".", "s", "t", "r", "m" >>
F_B_STRM == << "B", ".", "S", "T", "R", "M" >>
F_b_nfo == << "b", ".", "n", "f", "o" >>
F_poster == << "p", "o", "s", "t", "e", "r", ".", "j", "p", "g" >>
F_Poster == << "P", "o", "s", "t", "e", "r", ".", "J", "P", "G" >>
F_fanart == << "f", "a", "n", "a", "r", "t", ".", "j", "p", "g" >>
F_thumb == << "t", "h", "u", "m", "b", ".", "j", "p", "g" >>

FileNames ==
    { F_a_strm, F_b_strm, F_B_strm, F_B_STRM, F_b_nfo,
      F_poster, F_Poster, F_fanart, F_thumb }

Images == { F_poster, F_fanart, F_thumb }

\* Sidecar files of a destination title folder.
F_meta_json == << "m", "e", "t", "a", ".", "j", "s", "o", "n" >>
F_META_JSON == << "M", "E", "T", "A", ".", "J", "S", "O", "N" >>
JsonNames == { F_meta_json, F_META_JSON }
Ext_json == << ".", "j", "s", "o", "n" >>

\* The mapped pair of the configuration: monitor_dirs = "SRC:DST".
SrcRoot == "SRC"
DstRoot == "DST"

\* Path(event_path).parent and Path(event_path).name on a path given by its
\* segments below the watched root.
Parent(path) == SubSeq(path, 1, Len(path) - 1)
Name(path) == path[Len(path)]

StartsWith(s, prefix) ==
    /\ Len(prefix) <= Len(s)
    /\ SubSeq(s, 1, Len(prefix)) = prefix

Recycle1 == << "@", "R", "e", "c", "y", "c", "l", "e" >>
Recycle2 == << "#", "r", "e", "c", "y", "c", "l", "e" >>
EaDir == << "@", "e", "a", "D", "i", "r" >>

\* any(x in event_path for x in ['/@Recycle/', '/#recycle/', '/.', '/@eaDir'])
\* for event_path = root/seg1/.../segn, the root holding none of them.
Denied(path) ==
    \E i \in 1..Len(path) :
        \/ StartsWith(path[i], << "." >>)
        \/ StartsWith(path[i], EaDir)
        \/ i < Len(path) /\ path[i] \in { Recycle1, Recycle2 }

\* The classification directories the destination root may hold.
Keys == { first_char(t) : t \in Titles } \cup { Fallback }


(***************************************************************************)
(* Readiness (__handle_src_file, lines 163-175)                            *)
(***************************************************************************)

Ext_strm == << ".", "s", "t", "r", "m" >>
Ext_nfo == << ".", "n", "f", "o" >>

\* files = [f.name.lower() for f in av_folder.iterdir() if f.is_file()]
files_of(listing) == { Lower(f) : f \in listing }

has_strm(files) == \E f \in files : EndsWith(f, Ext_strm)
has_nfo(files) == \E f \in files : EndsWith(f, Ext_nfo)

\* A mutant of has_imgs: one of the three images is enough.
has_imgs_any(files) == \E img \in Images : img \in files

has_imgs(files) == \A img \in Images : img \in files

\* av_folder.glob('*' + ext): the files whose name ends with ext, the pattern
\* being matched case-sensitively (PosixPath).  next() takes the first one the
\* directory enumeration yields, which is any of them.
glob(listing, ext) == { f \in listing : EndsWith(f, ext) }

\* strm_f.stem.lower() == nfo_f.stem.lower()
same_stem(strm_f, nfo_f) == Lower(Stem(strm_f)) = Lower(Stem(nfo_f))

(***************************************************************************)
(* State                                                                   *)
(***************************************************************************)

\* The thread of the source root's observer, and the threads sync_all runs on
\* (the thread init_plugin starts, the API endpoint's, the scheduler's).
Watcher == "ws"
Syncers == { "s1", "s2" }
Threads == { Watcher } \cup Syncers

\* The thread init_plugin starts for the run-once flag (line 135); the other
\* thread sync_all runs on is the requester's own: the /sync endpoint is
\* self.sync_all itself (line 264) and remote_action calls self.sync_all()
\* (line 282).
RunOnceThread == "s1"

\* The folder contents the environment places into the source tree.
StagedContents ==
    { {F_b_strm, F_b_nfo} \cup Images,
      {F_b_strm, F_b_nfo, F_poster, F_fanart} }

\* How many hardlink or mkdir calls may fail in one behaviour.
MaxFailures == 1

\* How many changes the environment makes to the two trees in one behaviour.
MaxOutsideChanges == 2

\* How many times sync_all is entered in one behaviour.
MaxSyncRuns == 2

\* How many file-creation events may wait in the watcher's queue per folder.
MaxPending == 1

VARIABLES
    srcDirs,        \* the title folders that exist under SrcRoot/Actor
    srcFiles,       \* title |-> the regular files directly inside it
    dstDirs,        \* the classification directories that exist under DstRoot
    dst,            \* <<key, title>> |-> the entry DstRoot/key/title
    dirconf,        \* _dirconf: source root |-> destination root
    rev_dirconf,    \* _rev_dirconf: destination root |-> source root
    synced_folders, \* _synced_folders, the Dedup Cache
    lock,           \* the module-level lock: "free" or the thread holding it
    srcEvents,      \* the events the source root's observer has not dispatched
    pc,             \* thread |-> its position
    loc,            \* thread |-> the local variables of the handler it runs
    nfail,          \* how many calls have failed so far (bounded by MaxFailures)
    nops,           \* how many outside changes so far (bounded by MaxOutsideChanges)
    nsync,          \* how many times sync_all was entered (bounded by MaxSyncRuns)
    gone,           \* history: title |-> its mirror was deleted after its last mkdir
    lastPass,       \* history: title |-> the mirror as the last undisturbed link pass left it
    quiet,          \* history: no outside change since the delete handler began
    cname,          \* the name given to first_char (SpecClassify)
    ckey,           \* the key first_char returned for it
    twin,           \* title |-> the entry SrcRoot/Actor2/title and the files in it
    backLinks,      \* the source files that are hardlinks of a destination file
    scanOrder,      \* the order in which src_base.iterdir() yields the collections
    dstEvents,      \* the events the destination root's observer has not dispatched
    dpc,            \* the position of the destination root's observer thread
    dloc,           \* the local variables of the handler it runs
    seen,           \* history: the destination events handled to the end
    routed,         \* history: where event_handler sent the destination observer's last event
    ipc,            \* the position of the thread that runs init_plugin
    nconf,          \* how many times init_plugin was entered (bounded by MaxReconfigs)
    observer,       \* _observer: the registered watchers, in registration order
    watchers,       \* every watcher made so far |-> what became of it
    lines,          \* the mapping lines init_plugin has not read yet
    targets,        \* the roots of the current line it has not visited yet
    tostop          \* the watchers the loop of stop_service has not reached yet

fsVars == << srcDirs, srcFiles, dstDirs, dst >>
cfgVars == << dirconf, rev_dirconf >>
histVars == << gone, lastPass, quiet >>
boundVars == << nops, nsync >>
clsVars == << cname, ckey >>
backVars == << twin, backLinks, scanOrder, dstEvents, dpc, dloc, seen, routed >>
confVars == << ipc, nconf, observer, watchers, lines, targets, tostop >>
restVars == << backVars, confVars >>
vars == << srcDirs, srcFiles, dstDirs, dst, dirconf, rev_dirconf,
           synced_folders, lock, srcEvents, pc, loc, nfail, nops, nsync,
           gone, lastPass, quiet, cname, ckey, twin, backLinks, scanOrder,
           dstEvents, dpc, dloc, seen, routed, ipc, nconf, observer, watchers,
           lines, targets, tostop >>

\* A destination entry DstRoot/key/title: nothing, a regular file, or a
\* directory holding hardlinks to source files ("links") and files put there
\* from outside ("ext").
DstNone == [ kind |-> "none", links |-> {}, ext |-> {} ]
DstFile == [ kind |-> "file", links |-> {}, ext |-> {} ]
DstEmpty == [ kind |-> "dir", links |-> {}, ext |-> {} ]

\* The locals of a thread that runs no handler.
Loc0 ==
    [ event_path |-> << >>, av_folder |-> << >>, listing |-> {},
      ready |-> FALSE, success |-> TRUE, failed |-> FALSE, added |-> FALSE,
      outcome |-> "none", todo |-> {}, subs |-> {}, avs |-> {} ]

\* The entry SrcRoot/Actor2/title: nothing, a regular file, or a folder.
TwinNone == [ kind |-> "none", files |-> {} ]
TwinFile == [ kind |-> "file", files |-> {} ]

\* The locals of the destination observer's thread when it runs no handler.
DLoc0 ==
    [ event_path |-> << >>, src_base |-> "", av_name |-> << >>,
      actors |-> << >>, linked |-> FALSE, link_failed |-> FALSE ]

\* No destination-side event was seen yet and the second collection holds
\* no title folder.
InitBackIdle ==
    /\ twin = [ t \in Titles |-> TwinNone ]
    /\ backLinks = {}
    /\ scanOrder = << Actor, Actor2 >>
    /\ dstEvents = {}
    /\ dpc = "idle"
    /\ dloc = DLoc0
    /\ seen = {}
    /\ routed = "nothing"

\* A watcher is named by the run of init_plugin that made it and the root it
\* watches.  What is recorded of it: whether observer.start() went through,
\* whether it still delivers events, whether stop_service has called its
\* stop(), and whether that call or the join() after it raised.
WatcherOf(gen, root) == << gen, root >>
Running == [ started |-> TRUE, alive |-> TRUE, tried |-> FALSE, raised |-> FALSE ]
NotStarted == [ started |-> FALSE, alive |-> FALSE, tried |-> FALSE, raised |-> FALSE ]

\* The watchers of the first run of init_plugin (enabled = True, one mapped
\* pair, lines 117-132) are registered and running; init_plugin is not
\* running.
InitConfIdle ==
    /\ ipc = "idle"
    /\ nconf = 0
    /\ observer = << WatcherOf(0, SrcRoot), WatcherOf(0, DstRoot) >>
    /\ watchers = [ w \in { WatcherOf(0, SrcRoot), WatcherOf(0, DstRoot) } |-> Running ]
    /\ lines = << >>
    /\ targets = << >>
    /\ tostop = << >>

NoPass == [ known |-> FALSE, ok |-> FALSE, entry |-> DstNone, changed |-> TRUE ]

\* The path of a title folder below the source root, the Dedup Cache's key.
FolderPath(title) == << Actor, title >>

InitEngine ==
    /\ srcDirs = {}
    /\ srcFiles = [ t \in Titles |-> {} ]
    /\ dstDirs = {}
    /\ dst = [ e \in Keys \X Titles |-> DstNone ]
    /\ dirconf = [ r \in { SrcRoot } |-> DstRoot ]
    /\ rev_dirconf = [ r \in { DstRoot } |-> SrcRoot ]
    /\ synced_folders = {}
    /\ lock = "free"
    /\ srcEvents = {}
    /\ pc = [ t \in Threads |-> "idle" ]
    /\ loc = [ t \in Threads |-> Loc0 ]
    /\ nfail = 0
    /\ nops = 0
    /\ nsync = 0
    /\ gone = [ t \in Titles |-> FALSE ]
    /\ lastPass = [ t \in Titles |-> NoPass ]
    /\ quiet = TRUE
    /\ InitBackIdle
    /\ InitConfIdle

\* The state after init_plugin with enabled = True and one mapped pair.
Init ==
    /\ InitEngine
    /\ cname = << >>
    /\ ckey = ""


(***************************************************************************)
(* The environment: what happens to the two trees from outside, and the    *)
(* events the observers queue for it (FileMonitorHandler, lines 36-43)     *)
(***************************************************************************)

DeletePcs == { "hd_cache", "hd_remove", "hd_list", "hd_rm" }

\* An outside change during a running delete handler ends its quiet period.
Disturb ==
    /\ nops < MaxOutsideChanges
    /\ nops' = nops + 1
    /\ nsync' = nsync
    /\ quiet' = (pc[Watcher] \notin DeletePcs)

CreatedEvent(path, isdir) ==
    [ kind |-> "created", path |-> path, is_directory |-> isdir ]
DeletedEvent(path, isdir) ==
    [ kind |-> "deleted", path |-> path, is_directory |-> isdir ]

\* The queued creation events of a title folder and of the files in it.
PendingCreated(title) ==
    { e \in srcEvents : /\ e.kind = "created"
                        /\ \/ e.path = FolderPath(title)
                           \/ Parent(e.path) = FolderPath(title) }

\* The queue with one more event, unless the folder's share of it is full.
Queued(title, e) ==
    IF Cardinality(PendingCreated(title)) < MaxPending
    THEN srcEvents \cup { e }
    ELSE srcEvents

\* A title folder arrives in the source tree with its files; on_created is
\* queued for the directory.
PutFolder(title, content) ==
    /\ title \notin srcDirs
    /\ srcDirs' = srcDirs \cup { title }
    /\ srcFiles' = [ srcFiles EXCEPT ![title] = content ]
    /\ srcEvents' = Queued(title, CreatedEvent(FolderPath(title), TRUE))
    /\ lastPass' = [ lastPass EXCEPT ![title] = NoPass ]
    /\ Disturb
    /\ UNCHANGED << dstDirs, dst, cfgVars, synced_folders, lock, pc, loc,
                    nfail, gone, clsVars, restVars >>

\* on_created / on_moved is queued for a file of a title folder.  The handler
\* uses the parent of the event path and the denylist test only, so the
\* events of the files of one folder differ in nothing else; the model queues
\* the event of the first file in name order.
FileEvent(title) ==
    /\ title \in srcDirs
    /\ srcFiles[title] # {}
    /\ Cardinality(PendingCreated(title)) < MaxPending
    /\ srcEvents' = srcEvents \cup
          { CreatedEvent(FolderPath(title) \o << LexMin(srcFiles[title]) >>, FALSE) }
    /\ UNCHANGED << fsVars, cfgVars, synced_folders, lock, pc, loc, nfail,
                    histVars, boundVars, clsVars, restVars >>

\* A source title folder is deleted; on_deleted is queued for it.
RemoveFolder(title) ==
    /\ title \in srcDirs
    /\ srcDirs' = srcDirs \ { title }
    /\ srcFiles' = [ srcFiles EXCEPT ![title] = {} ]
    /\ srcEvents' = srcEvents \cup { DeletedEvent(FolderPath(title), TRUE) }
    /\ lastPass' = [ lastPass EXCEPT ![title] = NoPass ]
    /\ Disturb
    /\ UNCHANGED << dstDirs, dst, cfgVars, synced_folders, lock, pc, loc,
                    nfail, gone, clsVars, restVars >>

\* A destination entry is deleted from outside.  The destination root's
\* on_deleted reaches __handle_delete, which returns at line 223: the root is
\* no key of _dirconf.
RemoveDest(key, title) ==
    /\ dst[<< key, title >>].kind # "none"
    /\ dst' = [ dst EXCEPT ![<< key, title >>] = DstNone ]
    /\ gone' = [ gone EXCEPT ![title] = TRUE ]
    /\ lastPass' = [ lastPass EXCEPT ![title] = NoPass ]
    /\ Disturb
    /\ UNCHANGED << srcDirs, srcFiles, dstDirs, cfgVars, synced_folders, lock,
                    srcEvents, pc, loc, nfail, clsVars, restVars >>

\* An entry named like a title is made from outside in a classification
\* directory.
MakeDestEntry(key, title, entry) ==
    /\ dst[<< key, title >>].kind = "none"
    /\ dstDirs' = dstDirs \cup { key }
    /\ dst' = [ dst EXCEPT ![<< key, title >>] = entry ]
    /\ lastPass' = [ lastPass EXCEPT ![title] = NoPass ]
    /\ Disturb
    /\ UNCHANGED << srcDirs, srcFiles, cfgVars, synced_folders, lock,
                    srcEvents, pc, loc, nfail, gone, clsVars, restVars >>

\* The entries made from outside: a regular file, an empty directory, a
\* directory that holds a file named like one of the source files.
OutsideEntries ==
    { DstFile, DstEmpty, [ kind |-> "dir", links |-> {}, ext |-> { F_poster } ] }

Environment ==
    \/ \E title \in Titles, content \in StagedContents : PutFolder(title, content)
    \/ \E title \in Titles : FileEvent(title)
    \/ \E title \in Titles : RemoveFolder(title)
    \/ \E key \in Keys, title \in Titles : RemoveDest(key, title)
    \/ \E key \in Keys, title \in Titles, entry \in OutsideEntries :
          MakeDestEntry(key, title, entry)


(***************************************************************************)
(* event_handler (lines 139-150)                                           *)
(***************************************************************************)

\* Where __handle_src_file returns to: the observer's dispatch loop, or the
\* loop of sync_all.
Ret(t) == IF t = Watcher THEN "idle" ELSE "sa_next"

\* The locals once a handler has returned; sync_all keeps its list of folders.
Cleared(t) == [ Loc0 EXCEPT !.avs = loc[t].avs ]

\* event_handler without the test of line 143: the events of directories are
\* routed like those of files.
event_handler_no_directory_test(t, e) ==
    /\ t = Watcher
    /\ pc[t] = "idle"
    /\ e \in srcEvents
    /\ srcEvents' = srcEvents \ { e }
    /\ IF e.kind = "deleted"
       THEN /\ pc' = [ pc EXCEPT ![t] = "hd_cache" ]
            /\ loc' = [ loc EXCEPT ![t] = [ Loc0 EXCEPT !.event_path = e.path ] ]
       ELSE IF SrcRoot \in DOMAIN dirconf
       THEN /\ pc' = [ pc EXCEPT ![t] = "hs_check" ]
            /\ loc' = [ loc EXCEPT ![t] = [ Loc0 EXCEPT !.event_path = e.path ] ]
       ELSE UNCHANGED << pc, loc >>
    /\ quiet' = TRUE
    /\ UNCHANGED << fsVars, cfgVars, synced_folders, lock, nfail, gone,
                    lastPass, boundVars, clsVars, restVars >>

\* The observer thread of the source root dispatches one queued event;
\* mon_path is SrcRoot.
event_handler(t, e) ==
    /\ t = Watcher
    /\ pc[t] = "idle"
    /\ e \in srcEvents
    /\ srcEvents' = srcEvents \ { e }
    /\ IF e.kind = "deleted"
       THEN /\ pc' = [ pc EXCEPT ![t] = "hd_cache" ]
            /\ loc' = [ loc EXCEPT ![t] = [ Loc0 EXCEPT !.event_path = e.path ] ]
       ELSE IF e.is_directory
       THEN UNCHANGED << pc, loc >>
       ELSE IF SrcRoot \in DOMAIN dirconf
       THEN /\ pc' = [ pc EXCEPT ![t] = "hs_check" ]
            /\ loc' = [ loc EXCEPT ![t] = [ Loc0 EXCEPT !.event_path = e.path ] ]
       ELSE UNCHANGED << pc, loc >>
    /\ quiet' = TRUE
    /\ UNCHANGED << fsVars, cfgVars, synced_folders, lock, nfail, gone,
                    lastPass, boundVars, clsVars, restVars >>

(***************************************************************************)
(* __handle_src_file (lines 152-179)                                       *)
(***************************************************************************)

\* Lines 154-159, outside the lock: the cache check and the denylist.
handle_src_file_check(t) ==
    /\ pc[t] = "hs_check"
    /\ LET av == Parent(loc[t].event_path)
       IN IF av \in synced_folders \/ Denied(loc[t].event_path)
          THEN /\ pc' = [ pc EXCEPT ![t] = Ret(t) ]
               /\ loc' = [ loc EXCEPT ![t] = Cleared(t) ]
          ELSE /\ pc' = [ pc EXCEPT ![t] = "hs_lock" ]
               /\ loc' = [ loc EXCEPT ![t].av_folder = av,
                                      ![t].event_path = << >> ]
    /\ UNCHANGED << fsVars, cfgVars, synced_folders, lock, srcEvents, nfail,
                    histVars, boundVars, clsVars, restVars >>

\* Line 161: with lock.
handle_src_file_lock(t) ==
    /\ pc[t] = "hs_lock"
    /\ lock = "free"
    /\ lock' = t
    /\ pc' = [ pc EXCEPT ![t] = "hs_exists" ]
    /\ UNCHANGED << fsVars, cfgVars, synced_folders, srcEvents, loc, nfail,
                    histVars, boundVars, clsVars, restVars >>

\* Line 162: if not av_folder.exists(): return.
handle_src_file_exists(t) ==
    /\ pc[t] = "hs_exists"
    /\ IF Name(loc[t].av_folder) \in srcDirs
       THEN /\ pc' = [ pc EXCEPT ![t] = "hs_eval" ]
            /\ loc' = loc
       ELSE /\ pc' = [ pc EXCEPT ![t] = "hs_exit" ]
            /\ loc' = [ loc EXCEPT ![t].outcome = "returned" ]
    /\ UNCHANGED << fsVars, cfgVars, synced_folders, lock, srcEvents, nfail,
                    histVars, boundVars, clsVars, restVars >>

\* Lines 163-175: the listing, the five-file check, the first match of each
\* glob and the comparison of the stems.  iterdir() on a folder deleted since
\* line 162 raises outside the try; a glob without a match makes next() raise
\* StopIteration, which the except clause swallows.
handle_src_file_eval(t) ==
    /\ pc[t] = "hs_eval"
    /\ LET title == Name(loc[t].av_folder)
           listing == srcFiles[title]
           files == files_of(listing)
       IN IF title \notin srcDirs
          THEN /\ pc' = [ pc EXCEPT ![t] = "hs_exit" ]
               /\ loc' = [ loc EXCEPT ![t].outcome = "raised" ]
          ELSE IF has_strm(files) /\ has_nfo(files) /\ has_imgs(files)
                  /\ glob(listing, Ext_strm) # {} /\ glob(listing, Ext_nfo) # {}
          THEN \E strm_f \in glob(listing, Ext_strm), nfo_f \in glob(listing, Ext_nfo) :
                  IF same_stem(strm_f, nfo_f)
                  THEN /\ pc' = [ pc EXCEPT ![t] = "fl_mkdir" ]
                       /\ loc' = [ loc EXCEPT ![t].listing = listing,
                                              ![t].ready = TRUE ]
                  ELSE /\ pc' = [ pc EXCEPT ![t] = "hs_exit" ]
                       /\ loc' = [ loc EXCEPT ![t].listing = listing,
                                              ![t].outcome = "returned" ]
          ELSE /\ pc' = [ pc EXCEPT ![t] = "hs_exit" ]
               /\ loc' = [ loc EXCEPT ![t].listing = listing,
                                      ![t].outcome = "returned" ]
    /\ UNCHANGED << fsVars, cfgVars, synced_folders, lock, srcEvents, nfail,
                    histVars, boundVars, clsVars, restVars >>

(***************************************************************************)
(* _process_forward_link (lines 181-200), called at line 176               *)
(***************************************************************************)

\* dest_folder = target_base / first_char / av_name
DestOf(av_folder) == << first_char(Name(av_folder)), Name(av_folder) >>

\* A mutant of process_forward_link_mkdir: a mkdir that fails is taken for
\* done, and the function goes on to return success.
process_forward_link_mkdir_ignore_failure(t) ==
    /\ pc[t] = "fl_mkdir"
    /\ LET d == DestOf(loc[t].av_folder)
           title == Name(loc[t].av_folder)
       IN \/ /\ SrcRoot \in DOMAIN dirconf
             /\ dst[d].kind # "file"
             /\ dstDirs' = dstDirs \cup { d[1] }
             /\ dst' = [ dst EXCEPT ![d] = IF @.kind = "none" THEN DstEmpty ELSE @ ]
             /\ gone' = [ gone EXCEPT ![title] = FALSE ]
             /\ lastPass' = [ lastPass EXCEPT ![title].changed = FALSE ]
             /\ pc' = [ pc EXCEPT ![t] = "fl_glob" ]
             /\ UNCHANGED << loc, nfail >>
          \/ /\ \/ SrcRoot \notin DOMAIN dirconf
                \/ dst[d].kind = "file"
             /\ pc' = [ pc EXCEPT ![t] = "fl_loop" ]
             /\ loc' = [ loc EXCEPT ![t].todo = {} ]
             /\ UNCHANGED << dstDirs, dst, gone, lastPass, nfail >>
          \/ /\ nfail < MaxFailures
             /\ dst[d].kind = "none"
             /\ nfail' = nfail + 1
             /\ pc' = [ pc EXCEPT ![t] = "fl_loop" ]
             /\ loc' = [ loc EXCEPT ![t].todo = {} ]
             /\ UNCHANGED << dstDirs, dst, gone, lastPass >>
    /\ UNCHANGED << srcDirs, srcFiles, cfgVars, synced_folders, lock,
                    srcEvents, quiet, boundVars, clsVars, restVars >>

\* Lines 183-191: dest_folder.mkdir(parents=True, exist_ok=True).  It raises
\* when the entry is a regular file or when the file system refuses; the
\* exception leaves _process_forward_link and is swallowed at line 178.
process_forward_link_mkdir(t) ==
    /\ pc[t] = "fl_mkdir"
    /\ LET d == DestOf(loc[t].av_folder)
           title == Name(loc[t].av_folder)
       IN \/ /\ SrcRoot \in DOMAIN dirconf
             /\ dst[d].kind # "file"
             /\ dstDirs' = dstDirs \cup { d[1] }
             /\ dst' = [ dst EXCEPT ![d] = IF @.kind = "none" THEN DstEmpty ELSE @ ]
             /\ gone' = [ gone EXCEPT ![title] = FALSE ]
             /\ lastPass' = [ lastPass EXCEPT ![title].changed = FALSE ]
             /\ pc' = [ pc EXCEPT ![t] = "fl_glob" ]
             /\ UNCHANGED << loc, nfail >>
          \/ /\ \/ SrcRoot \notin DOMAIN dirconf
                \/ dst[d].kind = "file"
             /\ pc' = [ pc EXCEPT ![t] = "hs_exit" ]
             /\ loc' = [ loc EXCEPT ![t].failed = TRUE, ![t].outcome = "returned" ]
             /\ UNCHANGED << dstDirs, dst, gone, lastPass, nfail >>
          \/ /\ nfail < MaxFailures
             /\ dst[d].kind = "none"
             /\ nfail' = nfail + 1
             /\ pc' = [ pc EXCEPT ![t] = "hs_exit" ]
             /\ loc' = [ loc EXCEPT ![t].failed = TRUE, ![t].outcome = "returned" ]
             /\ UNCHANGED << dstDirs, dst, gone, lastPass >>
    /\ UNCHANGED << srcDirs, srcFiles, cfgVars, synced_folders, lock,
                    srcEvents, quiet, boundVars, clsVars, restVars >>

\* Line 194: av_folder.glob('*') lists the folder once.  On a folder deleted
\* meanwhile the listing raises (swallowed at line 178) or is empty, depending
\* on the pathlib in use.
process_forward_link_glob(t) ==
    /\ pc[t] = "fl_glob"
    /\ LET title == Name(loc[t].av_folder)
       IN IF title \in srcDirs
          THEN /\ pc' = [ pc EXCEPT ![t] = "fl_loop" ]
               /\ loc' = [ loc EXCEPT ![t].todo = srcFiles[title] ]
          ELSE \/ /\ pc' = [ pc EXCEPT ![t] = "hs_exit" ]
                  /\ loc' = [ loc EXCEPT ![t].outcome = "returned" ]
               \/ /\ pc' = [ pc EXCEPT ![t] = "fl_loop" ]
                  /\ loc' = [ loc EXCEPT ![t].todo = {} ]
    /\ UNCHANGED << fsVars, cfgVars, synced_folders, lock, srcEvents, nfail,
                    histVars, boundVars, clsVars, restVars >>

\* The events the destination root's observer gets for the file a forward
\* link has made.  Only the event of a sidecar is queued: __handle_dest_file
\* returns at the suffix test of line 204 on the event of any other file, and
\* event_handler returns at line 143 on the event of the directory mkdir has
\* made, without reading or changing anything.
LinkedEvents(d, item) ==
    IF EndsWith(Lower(item), Ext_json)
    THEN { CreatedEvent(d \o << item >>, FALSE) }
    ELSE {}

\* What a forward link leaves as it is, besides the trees and the locals.
LinkFrame ==
    << cfgVars, synced_folders, lock, srcEvents, pc, histVars, boundVars,
       clsVars, twin, backLinks, scanOrder, dpc, dloc, seen, routed, confVars >>

\* A mutant of link_item: an existing destination entry is linked over.
link_item_overwrite(t, item) ==
    /\ pc[t] = "fl_loop"
    /\ item \in loc[t].todo
    /\ LET d == DestOf(loc[t].av_folder)
           title == Name(loc[t].av_folder)
       IN IF title \in srcDirs /\ item \in srcFiles[title] /\ dst[d].kind = "dir"
          THEN /\ dst' = [ dst EXCEPT ![d].links = @ \cup { item },
                                      ![d].ext = @ \ { item } ]
               /\ dstEvents' = dstEvents \cup LinkedEvents(d, item)
               /\ loc' = [ loc EXCEPT ![t].todo = @ \ { item } ]
          ELSE /\ dst' = dst
               /\ dstEvents' = dstEvents
               /\ loc' = [ loc EXCEPT ![t].todo = @ \ { item },
                                      ![t].success = FALSE,
                                      ![t].failed = TRUE ]
    /\ UNCHANGED << srcDirs, srcFiles, dstDirs, nfail, LinkFrame >>

\* Lines 195-199, one item of the loop: a hardlink is made only for a regular
\* file whose destination name does not exist; SystemUtils.link returns a
\* nonzero code when the link cannot be made.
link_item(t, item) ==
    /\ pc[t] = "fl_loop"
    /\ item \in loc[t].todo
    /\ LET d == DestOf(loc[t].av_folder)
           title == Name(loc[t].av_folder)
           is_file == title \in srcDirs /\ item \in srcFiles[title]
           exists == dst[d].kind = "dir" /\ item \in dst[d].links \cup dst[d].ext
       IN IF ~is_file \/ exists
          THEN /\ loc' = [ loc EXCEPT ![t].todo = @ \ { item } ]
               /\ UNCHANGED << dst, dstEvents, nfail >>
          ELSE \/ /\ dst[d].kind = "dir"
                  /\ dst' = [ dst EXCEPT ![d].links = @ \cup { item } ]
                  /\ dstEvents' = dstEvents \cup LinkedEvents(d, item)
                  /\ loc' = [ loc EXCEPT ![t].todo = @ \ { item } ]
                  /\ nfail' = nfail
               \/ /\ dst[d].kind # "dir" \/ nfail < MaxFailures
                  /\ nfail' = IF dst[d].kind = "dir" THEN nfail + 1 ELSE nfail
                  /\ loc' = [ loc EXCEPT ![t].todo = @ \ { item },
                                         ![t].success = FALSE,
                                         ![t].failed = TRUE ]
                  /\ UNCHANGED << dst, dstEvents >>
    /\ UNCHANGED << srcDirs, srcFiles, dstDirs, LinkFrame >>

\* Line 194: the for loop takes the next item.  The items are handled
\* independently of each other, so the order in which glob('*') yields them
\* does not change what the loop does; the model takes them in name order.
process_forward_link_item(t) ==
    /\ pc[t] = "fl_loop"
    /\ loc[t].todo # {}
    /\ link_item(t, LexMin(loc[t].todo))

\* A mutant of add_if_success: the folder is cached whatever the pass returned.
add_always(t) ==
    /\ synced_folders' = synced_folders \cup { loc[t].av_folder }
    /\ loc' = [ loc EXCEPT ![t].added = TRUE, ![t].outcome = "returned" ]

\* Lines 176-177: if self._process_forward_link(...): self._synced_folders.add(...)
add_if_success(t) ==
    IF loc[t].success
    THEN /\ synced_folders' = synced_folders \cup { loc[t].av_folder }
         /\ loc' = [ loc EXCEPT ![t].added = TRUE, ![t].outcome = "returned" ]
    ELSE /\ synced_folders' = synced_folders
         /\ loc' = [ loc EXCEPT ![t].outcome = "returned" ]

\* Line 200 and lines 176-177: the loop is over, _process_forward_link
\* returns success and the caller adds the folder to the Dedup Cache.
handle_src_file_add(t) ==
    /\ pc[t] = "fl_loop"
    /\ loc[t].todo = {}
    /\ add_if_success(t)
    /\ pc' = [ pc EXCEPT ![t] = "hs_exit" ]
    /\ lastPass' = [ lastPass EXCEPT ![Name(loc[t].av_folder)] =
                        IF @.changed
                        THEN @
                        ELSE [ known |-> TRUE, ok |-> loc[t].success,
                               entry |-> dst[DestOf(loc[t].av_folder)],
                               changed |-> FALSE ] ]
    /\ UNCHANGED << fsVars, cfgVars, lock, srcEvents, nfail, gone, quiet,
                    boundVars, clsVars, restVars >>

\* The lock taken by lock.acquire() and released by lock.release() at the
\* end of the block only, instead of with lock: an exception raised inside
\* leaves the lock taken.
handle_src_file_exit_no_release_on_raise(t) ==
    /\ pc[t] = "hs_exit"
    /\ lock' = IF loc[t].outcome = "raised" THEN lock ELSE "free"
    /\ IF loc[t].outcome = "raised"
       THEN /\ pc' = [ pc EXCEPT ![t] = IF t = Watcher THEN "crashed" ELSE "idle" ]
            /\ loc' = [ loc EXCEPT ![t] = Loc0 ]
       ELSE /\ pc' = [ pc EXCEPT ![t] = Ret(t) ]
            /\ loc' = [ loc EXCEPT ![t] = Cleared(t) ]
    /\ UNCHANGED << fsVars, cfgVars, synced_folders, srcEvents, nfail,
                    histVars, boundVars, clsVars, restVars >>

\* The end of the with block: the lock is released on return and on an
\* exception alike.  An exception that left the handler ends the thread it
\* ran on (the observer's dispatch loop, or sync_all).
handle_src_file_exit(t) ==
    /\ pc[t] = "hs_exit"
    /\ lock' = "free"
    /\ IF loc[t].outcome = "raised"
       THEN /\ pc' = [ pc EXCEPT ![t] = IF t = Watcher THEN "crashed" ELSE "idle" ]
            /\ loc' = [ loc EXCEPT ![t] = Loc0 ]
       ELSE /\ pc' = [ pc EXCEPT ![t] = Ret(t) ]
            /\ loc' = [ loc EXCEPT ![t] = Cleared(t) ]
    /\ UNCHANGED << fsVars, cfgVars, synced_folders, srcEvents, nfail,
                    histVars, boundVars, clsVars, restVars >>


(***************************************************************************)
(* __handle_delete (lines 222-234): no lock is taken                       *)
(***************************************************************************)

\* Lines 223-226: the root is looked up and the event path is looked for in
\* the Dedup Cache.
handle_delete_cache(t) ==
    /\ pc[t] = "hd_cache"
    /\ IF SrcRoot \notin DOMAIN dirconf
       THEN /\ pc' = [ pc EXCEPT ![t] = "idle" ]
            /\ loc' = [ loc EXCEPT ![t] = Loc0 ]
       ELSE /\ pc' = [ pc EXCEPT ![t] = IF loc[t].event_path \in synced_folders
                                        THEN "hd_remove" ELSE "hd_list" ]
            /\ loc' = loc
    /\ UNCHANGED << fsVars, cfgVars, synced_folders, lock, srcEvents, nfail,
                    histVars, boundVars, clsVars, restVars >>

\* Line 227: set.remove raises KeyError when the path has left the cache since
\* the test of line 226; nothing catches it, and it ends the observer thread.
handle_delete_remove(t) ==
    /\ pc[t] = "hd_remove"
    /\ IF loc[t].event_path \in synced_folders
       THEN /\ synced_folders' = synced_folders \ { loc[t].event_path }
            /\ pc' = [ pc EXCEPT ![t] = "hd_list" ]
            /\ loc' = loc
            /\ quiet' = quiet
       ELSE /\ synced_folders' = synced_folders
            /\ pc' = [ pc EXCEPT ![t] = "crashed" ]
            /\ loc' = [ loc EXCEPT ![t] = Loc0 ]
            /\ quiet' = TRUE
    /\ UNCHANGED << fsVars, cfgVars, lock, srcEvents, nfail, gone, lastPass,
                    boundVars, clsVars, restVars >>

\* Lines 229-230: the classification directories are listed once.
handle_delete_list(t) ==
    /\ pc[t] = "hd_list"
    /\ pc' = [ pc EXCEPT ![t] = "hd_rm" ]
    /\ loc' = [ loc EXCEPT ![t].subs = dstDirs ]
    /\ UNCHANGED << fsVars, cfgVars, synced_folders, lock, srcEvents, nfail,
                    histVars, boundVars, clsVars, restVars >>

\* A mutant of remove_entry: what is inside the entry is deleted and the
\* entry itself is kept.
remove_entry_inside(sub, p_name) ==
    IF << sub, p_name >> \in DOMAIN dst /\ dst[<< sub, p_name >>].kind # "none"
    THEN /\ dst' = [ dst EXCEPT ![<< sub, p_name >>].links = {},
                                ![<< sub, p_name >>].ext = {} ]
         /\ gone' = [ gone EXCEPT ![p_name] = TRUE ]
         /\ lastPass' = [ lastPass EXCEPT ![p_name] = NoPass ]
    ELSE UNCHANGED << dst, gone, lastPass >>

\* Lines 231-234 for one classification directory: rmtree or unlink of the
\* entry of that name, if there is one.
remove_entry(sub, p_name) ==
    IF << sub, p_name >> \in DOMAIN dst /\ dst[<< sub, p_name >>].kind # "none"
    THEN /\ dst' = [ dst EXCEPT ![<< sub, p_name >>] = DstNone ]
         /\ gone' = [ gone EXCEPT ![p_name] = TRUE ]
         /\ lastPass' = [ lastPass EXCEPT ![p_name] = NoPass ]
    ELSE UNCHANGED << dst, gone, lastPass >>

handle_delete_rm(t) ==
    /\ pc[t] = "hd_rm"
    /\ \E sub \in loc[t].subs :
          /\ remove_entry(sub, Name(loc[t].event_path))
          /\ loc' = [ loc EXCEPT ![t].subs = @ \ { sub } ]
    /\ UNCHANGED << srcDirs, srcFiles, dstDirs, cfgVars, synced_folders, lock,
                    srcEvents, pc, nfail, quiet, boundVars, clsVars, restVars >>

\* The handler returns to the observer's dispatch loop.
handle_delete_return(t) ==
    /\ pc[t] = "hd_rm"
    /\ loc[t].subs = {}
    /\ pc' = [ pc EXCEPT ![t] = "idle" ]
    /\ loc' = [ loc EXCEPT ![t] = Loc0 ]
    /\ quiet' = TRUE
    /\ UNCHANGED << fsVars, cfgVars, synced_folders, lock, srcEvents, nfail,
                    gone, lastPass, boundVars, clsVars, restVars >>

(***************************************************************************)
(* sync_all (lines 236-247)                                                *)
(***************************************************************************)

\* sync_all is entered: by the thread init_plugin starts for onlyonce (line
\* 135), by the /sync endpoint (line 264), by remote_action (line 282) or by
\* the scheduled job (line 290).  None of them checks for a running pass.
sync_all_start(t) ==
    /\ t \in Syncers
    /\ pc[t] = "idle"
    /\ nsync < MaxSyncRuns
    /\ nsync' = nsync + 1
    /\ pc' = [ pc EXCEPT ![t] = "sa_clear" ]
    /\ UNCHANGED << fsVars, cfgVars, synced_folders, lock, srcEvents, loc,
                    nfail, nops, histVars, clsVars, restVars >>

\* Line 238: self._synced_folders.clear(), outside the lock.
sync_all_clear(t) ==
    /\ pc[t] = "sa_clear"
    /\ synced_folders' = {}
    /\ pc' = [ pc EXCEPT ![t] = "sa_scan" ]
    /\ UNCHANGED << fsVars, cfgVars, lock, srcEvents, loc, nfail, histVars,
                    boundVars, clsVars, restVars >>

\* Lines 239-243: the title folders of every collection directory of every
\* source root are listed.
sync_all_scan(t) ==
    /\ pc[t] = "sa_scan"
    /\ loc' = [ loc EXCEPT ![t].avs =
                   IF SrcRoot \in DOMAIN dirconf
                   THEN { FolderPath(title) : title \in srcDirs }
                   ELSE {} ]
    /\ pc' = [ pc EXCEPT ![t] = "sa_next" ]
    /\ UNCHANGED << fsVars, cfgVars, synced_folders, lock, srcEvents, nfail,
                    histVars, boundVars, clsVars, restVars >>

\* Lines 243-246 for one title folder: sample = next(av.glob('*.strm'), None)
\* and, if there is one, __handle_src_file(str(sample), m_path).  On a folder
\* deleted since the listing the glob raises, which ends sync_all, or is
\* empty, depending on the pathlib in use.
sync_all_next(t) ==
    /\ pc[t] = "sa_next"
    /\ \E av \in loc[t].avs :
          LET title == Name(av)
              found == glob(srcFiles[title], Ext_strm)
          IN IF title \notin srcDirs
             THEN \/ /\ pc' = [ pc EXCEPT ![t] = "idle" ]
                     /\ loc' = [ loc EXCEPT ![t] = Loc0 ]
                  \/ /\ pc' = pc
                     /\ loc' = [ loc EXCEPT ![t].avs = @ \ { av } ]
             ELSE IF found = {}
             THEN /\ pc' = pc
                  /\ loc' = [ loc EXCEPT ![t].avs = @ \ { av } ]
             ELSE \E sample \in found :
                     /\ pc' = [ pc EXCEPT ![t] = "hs_check" ]
                     /\ loc' = [ loc EXCEPT ![t].avs = @ \ { av },
                                            ![t].event_path = av \o << sample >> ]
    /\ UNCHANGED << fsVars, cfgVars, synced_folders, lock, srcEvents, nfail,
                    histVars, boundVars, clsVars, restVars >>

\* Line 247: the pass is complete.
sync_all_done(t) ==
    /\ pc[t] = "sa_next"
    /\ loc[t].avs = {}
    /\ pc' = [ pc EXCEPT ![t] = "idle" ]
    /\ loc' = [ loc EXCEPT ![t] = Loc0 ]
    /\ UNCHANGED << fsVars, cfgVars, synced_folders, lock, srcEvents, nfail,
                    histVars, boundVars, clsVars, restVars >>

(***************************************************************************)
(* The engine                                                              *)
(***************************************************************************)

Engine ==
    \/ \E e \in srcEvents : event_handler(Watcher, e)
    \/ \E t \in Threads : handle_src_file_check(t)
    \/ \E t \in Threads : handle_src_file_lock(t)
    \/ \E t \in Threads : handle_src_file_exists(t)
    \/ \E t \in Threads : handle_src_file_eval(t)
    \/ \E t \in Threads : process_forward_link_mkdir(t)
    \/ \E t \in Threads : process_forward_link_glob(t)
    \/ \E t \in Threads : process_forward_link_item(t)
    \/ \E t \in Threads : handle_src_file_add(t)
    \/ \E t \in Threads : handle_src_file_exit(t)
    \/ \E t \in Threads : handle_delete_cache(t)
    \/ \E t \in Threads : handle_delete_remove(t)
    \/ \E t \in Threads : handle_delete_list(t)
    \/ \E t \in Threads : handle_delete_rm(t)
    \/ \E t \in Threads : handle_delete_return(t)
    \/ \E t \in Syncers : sync_all_start(t)
    \/ \E t \in Syncers : sync_all_clear(t)
    \/ \E t \in Syncers : sync_all_scan(t)
    \/ \E t \in Syncers : sync_all_next(t)
    \/ \E t \in Syncers : sync_all_done(t)

Next == Environment \/ Engine

Spec == Init /\ [][Next]_vars


(***************************************************************************)
(* first_char on its own: the name is drawn from a bounded set              *)
(***************************************************************************)

\* The characters and the greatest length of the names drawn besides the
\* spec's three examples.
NameChars == { "A", "b", "2", "-", "_" }
MaxNameLen == 3

NamesOfLen(n) == [ 1..n -> NameChars ]

NameInputs ==
    UNION { NamesOfLen(n) : n \in 1..MaxNameLen }
        \cup { T_ABC, T_NUM, T_FC2,
               << "f", "c", "2", "-", "p", "p", "v", "1" >>,
               << "F", "C", "2", "-", "P", "P", "V" >> }

InitClassify ==
    /\ InitEngine
    /\ cname \in NameInputs
    /\ ckey = ""

Classify ==
    /\ ckey = ""
    /\ ckey' = first_char(cname)
    /\ UNCHANGED << fsVars, cfgVars, synced_folders, lock, srcEvents, pc, loc,
                    nfail, histVars, boundVars, cname, restVars >>

NextClassify == Classify

SpecClassify == InitClassify /\ [][NextClassify]_vars

(***************************************************************************)
(* Readiness on its own: one title folder with any set of the file names,  *)
(* evaluated by events and by one reconciliation pass, nothing changing    *)
(* the trees from outside                                                  *)
(***************************************************************************)

InitReady ==
    /\ \E title \in Titles, content \in SUBSET FileNames :
          /\ srcDirs = { title }
          /\ srcFiles = [ t \in Titles |-> IF t = title THEN content ELSE {} ]
    /\ dstDirs = {}
    /\ dst = [ e \in Keys \X Titles |-> DstNone ]
    /\ dirconf = [ r \in { SrcRoot } |-> DstRoot ]
    /\ rev_dirconf = [ r \in { DstRoot } |-> SrcRoot ]
    /\ synced_folders = {}
    /\ lock = "free"
    /\ srcEvents = {}
    /\ pc = [ t \in Threads |-> "idle" ]
    /\ loc = [ t \in Threads |-> Loc0 ]
    /\ nfail = 0
    /\ nops = 0
    /\ nsync = MaxSyncRuns - 1
    /\ gone = [ t \in Titles |-> FALSE ]
    /\ lastPass = [ t \in Titles |-> NoPass ]
    /\ quiet = TRUE
    /\ cname = << >>
    /\ ckey = ""
    /\ InitBackIdle
    /\ InitConfIdle

NextReady ==
    \/ \E title \in Titles : FileEvent(title)
    \/ \E e \in srcEvents : event_handler(Watcher, e)
    \/ \E t \in Threads : handle_src_file_check(t)
    \/ \E t \in Threads : handle_src_file_lock(t)
    \/ \E t \in Threads : handle_src_file_exists(t)
    \/ \E t \in Threads : handle_src_file_eval(t)
    \/ \E t \in Threads : process_forward_link_mkdir(t)
    \/ \E t \in Threads : process_forward_link_glob(t)
    \/ \E t \in Threads : process_forward_link_item(t)
    \/ \E t \in Threads : handle_src_file_add(t)
    \/ \E t \in Threads : handle_src_file_exit(t)
    \/ \E t \in Syncers : sync_all_start(t)
    \/ \E t \in Syncers : sync_all_clear(t)
    \/ \E t \in Syncers : sync_all_scan(t)
    \/ \E t \in Syncers : sync_all_next(t)
    \/ \E t \in Syncers : sync_all_done(t)

SpecReady == InitReady /\ [][NextReady]_vars


(***************************************************************************)
(* The destination root's observer: event_handler (lines 139-150) with     *)
(* mon_path = DstRoot, and __handle_dest_file (lines 202-220)              *)
(***************************************************************************)

\* The thread of the destination root's observer.
DestWatcher == "wd"

\* The entry SrcRoot/actor/title and the regular files directly inside it.
SrcEntryKind(actor, title) ==
    IF actor = Actor
    THEN IF title \in srcDirs THEN "dir" ELSE "none"
    ELSE twin[title].kind

SrcEntryFiles(actor, title) ==
    IF actor = Actor
    THEN IF title \in srcDirs THEN srcFiles[title] ELSE {}
    ELSE twin[title].files

\* The regular file DstRoot/key/title/name exists.
DestFileExists(path) ==
    /\ << path[1], path[2] >> \in DOMAIN dst
    /\ dst[<< path[1], path[2] >>].kind = "dir"
    /\ path[3] \in dst[<< path[1], path[2] >>].links \cup dst[<< path[1], path[2] >>].ext

\* A file is put from outside into a destination title folder; on_created is
\* queued for it.
PutDestFile(key, title, name) ==
    /\ dst[<< key, title >>].kind = "dir"
    /\ name \notin dst[<< key, title >>].links \cup dst[<< key, title >>].ext
    /\ dst' = [ dst EXCEPT ![<< key, title >>].ext = @ \cup { name } ]
    /\ dstEvents' = dstEvents \cup { CreatedEvent(<< key, title, name >>, FALSE) }
    /\ lastPass' = [ lastPass EXCEPT ![title] = NoPass ]
    /\ Disturb
    /\ UNCHANGED << srcDirs, srcFiles, dstDirs, cfgVars, synced_folders, lock,
                    srcEvents, pc, loc, nfail, gone, clsVars, twin, backLinks,
                    scanOrder, dpc, dloc, seen, confVars, routed >>

\* The observer reports a file of a destination title folder once more (the
\* file is moved onto its own name or written again).
RepeatDestEvent(key, title, name) ==
    /\ DestFileExists(<< key, title, name >>)
    /\ CreatedEvent(<< key, title, name >>, FALSE) \notin dstEvents
    /\ dstEvents' = dstEvents \cup { CreatedEvent(<< key, title, name >>, FALSE) }
    /\ Disturb
    /\ UNCHANGED << fsVars, cfgVars, synced_folders, lock, srcEvents, pc, loc,
                    nfail, gone, lastPass, clsVars, twin, backLinks, scanOrder,
                    dpc, dloc, seen, confVars, routed >>

\* An observer that reports a file again after every dispatch: the event
\* stays in the queue.
event_handler_dest_again(e) ==
    /\ dpc = "idle"
    /\ e \in dstEvents
    /\ dstEvents' = dstEvents
    /\ IF e.kind = "deleted" \/ e.is_directory \/ DstRoot \in DOMAIN dirconf
          \/ DstRoot \notin DOMAIN rev_dirconf
       THEN /\ UNCHANGED << dpc, dloc >>
            /\ routed' = "again"
       ELSE /\ dpc' = "hb_check"
            /\ dloc' = [ DLoc0 EXCEPT !.event_path = e.path ]
            /\ routed' = "destination"
    /\ UNCHANGED << fsVars, cfgVars, synced_folders, lock, srcEvents, pc, loc,
                    nfail, histVars, boundVars, clsVars, twin, backLinks,
                    scanOrder, seen, confVars >>

\* Lines 139-150 for an event of the destination root.  A deletion goes to
\* __handle_delete, which returns at line 223 when the root is no key of
\* _dirconf; a file event goes to __handle_dest_file when the root is a key
\* of _rev_dirconf only.
event_handler_dest(e) ==
    /\ dpc = "idle"
    /\ e \in dstEvents
    /\ dstEvents' = dstEvents \ { e }
    /\ IF e.kind = "deleted"
       THEN /\ dpc' = "hd_root"
            /\ dloc' = [ DLoc0 EXCEPT !.event_path = e.path ]
            /\ routed' = "delete"
       ELSE IF e.is_directory
       THEN /\ UNCHANGED << dpc, dloc >>
            /\ routed' = "directory"
       ELSE IF DstRoot \in DOMAIN dirconf
       THEN /\ UNCHANGED << dpc, dloc >>
            /\ routed' = "source"
       ELSE IF DstRoot \in DOMAIN rev_dirconf
       THEN /\ dpc' = "hb_check"
            /\ dloc' = [ DLoc0 EXCEPT !.event_path = e.path ]
            /\ routed' = "destination"
       ELSE /\ UNCHANGED << dpc, dloc >>
            /\ routed' = "unmapped"
    /\ UNCHANGED << fsVars, cfgVars, synced_folders, lock, srcEvents, pc, loc,
                    nfail, histVars, boundVars, clsVars, twin, backLinks,
                    scanOrder, seen, confVars >>

\* Line 223 for a deletion below the destination root: the root is no key of
\* _dirconf and __handle_delete returns.  No configuration of the model makes
\* the destination root a source root as well.
handle_delete_root ==
    /\ dpc = "hd_root"
    /\ DstRoot \notin DOMAIN dirconf
    /\ dpc' = "idle"
    /\ dloc' = DLoc0
    /\ UNCHANGED << fsVars, cfgVars, synced_folders, lock, srcEvents, pc, loc,
                    nfail, histVars, boundVars, clsVars, twin, backLinks,
                    scanOrder, dstEvents, seen, confVars, routed >>

\* Lines 204-208, outside the lock: the suffix test, src_base and av_name.
handle_dest_file_check ==
    /\ dpc = "hb_check"
    /\ IF ~EndsWith(Lower(Name(dloc.event_path)), Ext_json)
       THEN /\ dpc' = "idle"
            /\ dloc' = DLoc0
       ELSE /\ dpc' = "hb_lock"
            /\ dloc' = [ dloc EXCEPT
                           !.src_base = IF DstRoot \in DOMAIN rev_dirconf
                                        THEN rev_dirconf[DstRoot] ELSE "",
                           !.av_name = Name(Parent(dloc.event_path)) ]
    /\ UNCHANGED << fsVars, cfgVars, synced_folders, lock, srcEvents, pc, loc,
                    nfail, histVars, boundVars, clsVars, twin, backLinks,
                    scanOrder, dstEvents, seen, confVars, routed >>

\* Line 210: with lock.
handle_dest_file_lock ==
    /\ dpc = "hb_lock"
    /\ lock = "free"
    /\ lock' = DestWatcher
    /\ dpc' = "hb_scan"
    /\ UNCHANGED << fsVars, cfgVars, synced_folders, srcEvents, pc, loc, nfail,
                    histVars, boundVars, clsVars, twin, backLinks, scanOrder,
                    dstEvents, dloc, seen, confVars, routed >>

\* Lines 211-213: the collection directories of src_base are listed once.
handle_dest_file_scan ==
    /\ dpc = "hb_scan"
    /\ IF dloc.src_base = SrcRoot
       THEN /\ dpc' = "hb_loop"
            /\ dloc' = [ dloc EXCEPT !.actors = scanOrder ]
       ELSE /\ dpc' = "hb_exit"
            /\ dloc' = dloc
    /\ UNCHANGED << fsVars, cfgVars, synced_folders, lock, srcEvents, pc, loc,
                    nfail, histVars, boundVars, clsVars, twin, backLinks,
                    scanOrder, dstEvents, seen, confVars, routed >>

\* A mutant of back_link: the hardlink is made over a file of that name.
back_link_overwrite(actor, title, name) ==
    /\ IF SrcEntryKind(actor, title) = "dir" /\ DestFileExists(dloc.event_path)
       THEN /\ IF actor = Actor
               THEN /\ srcFiles' = [ srcFiles EXCEPT ![title] = @ \cup { name } ]
                    /\ srcEvents' = srcEvents \cup
                          { CreatedEvent(<< Actor, title, name >>, FALSE) }
                    /\ twin' = twin
               ELSE /\ twin' = [ twin EXCEPT ![title].files = @ \cup { name } ]
                    /\ UNCHANGED << srcFiles, srcEvents >>
            /\ backLinks' = backLinks \cup { << actor, title, name >> }
            /\ dloc' = [ dloc EXCEPT !.linked = TRUE ]
       ELSE /\ dloc' = [ dloc EXCEPT !.link_failed = TRUE ]
            /\ UNCHANGED << srcFiles, srcEvents, twin, backLinks >>
    /\ nfail' = nfail

\* Lines 216-219: a hardlink to the destination file is made in the title
\* folder unless an entry of that name is there; the result of
\* SystemUtils.link is not looked at.  The source root's observer queues
\* on_created for the new file.
back_link(actor, title, name) ==
    IF name \in SrcEntryFiles(actor, title)
    THEN UNCHANGED << srcFiles, srcEvents, twin, backLinks, dloc, nfail >>
    ELSE \/ /\ SrcEntryKind(actor, title) = "dir"
            /\ DestFileExists(dloc.event_path)
            /\ IF actor = Actor
               THEN /\ srcFiles' = [ srcFiles EXCEPT ![title] = @ \cup { name } ]
                    /\ srcEvents' = srcEvents \cup
                          { CreatedEvent(<< Actor, title, name >>, FALSE) }
                    /\ twin' = twin
               ELSE /\ twin' = [ twin EXCEPT ![title].files = @ \cup { name } ]
                    /\ UNCHANGED << srcFiles, srcEvents >>
            /\ backLinks' = backLinks \cup { << actor, title, name >> }
            /\ dloc' = [ dloc EXCEPT !.linked = TRUE ]
            /\ nfail' = nfail
         \/ /\ \/ SrcEntryKind(actor, title) # "dir"
               \/ ~DestFileExists(dloc.event_path)
               \/ nfail < MaxFailures
            /\ nfail' = IF SrcEntryKind(actor, title) = "dir"
                           /\ DestFileExists(dloc.event_path)
                        THEN nfail + 1 ELSE nfail
            /\ dloc' = [ dloc EXCEPT !.link_failed = TRUE ]
            /\ UNCHANGED << srcFiles, srcEvents, twin, backLinks >>

\* Lines 213-220, one collection directory of the loop: on the first one that
\* holds an entry named av_name the link is made and the handler returns.
handle_dest_file_visit ==
    /\ dpc = "hb_loop"
    /\ dloc.actors # << >>
    /\ LET actor == Head(dloc.actors)
           title == dloc.av_name
           name == Name(dloc.event_path)
       IN IF title \in Titles /\ SrcEntryKind(actor, title) # "none"
          THEN /\ back_link(actor, title, name)
               /\ dpc' = "hb_exit"
          ELSE /\ dpc' = IF Tail(dloc.actors) = << >> THEN "hb_exit" ELSE "hb_loop"
               /\ dloc' = [ dloc EXCEPT !.actors = Tail(@) ]
               /\ UNCHANGED << srcFiles, srcEvents, twin, backLinks, nfail >>
    /\ UNCHANGED << srcDirs, dstDirs, dst, cfgVars, synced_folders, lock, pc,
                    loc, histVars, boundVars, clsVars, scanOrder,
                    dstEvents, seen, confVars, routed >>

\* The end of the with block of line 210: the lock is released.
handle_dest_file_exit ==
    /\ dpc = "hb_exit"
    /\ lock' = "free"
    /\ dpc' = "idle"
    /\ dloc' = DLoc0
    /\ seen' = seen \cup { dloc.event_path }
    /\ UNCHANGED << fsVars, cfgVars, synced_folders, srcEvents, pc, loc, nfail,
                    histVars, boundVars, clsVars, twin, backLinks, scanOrder,
                    dstEvents, confVars, routed >>

BackEngine ==
    \/ \E e \in dstEvents : event_handler_dest(e)
    \/ handle_dest_file_check
    \/ handle_dest_file_lock
    \/ handle_dest_file_scan
    \/ handle_dest_file_visit
    \/ handle_dest_file_exit

(***************************************************************************)
(* Back-linking on its own: a destination title folder, the title folder   *)
(* in none, one or both collections of the source root, files put into the *)
(* destination folder from outside                                         *)
(***************************************************************************)

\* The entries SrcRoot/Actor2/title the behaviours start from.
TwinEntries ==
    { TwinNone, TwinFile }
        \cup { [ kind |-> "dir", files |-> f ] : f \in SUBSET JsonNames }

\* The names of the files put into the destination folder.
PutNames == JsonNames \cup { F_poster }

InitBack ==
    /\ \E title \in Titles, present \in BOOLEAN, own \in SUBSET JsonNames,
          tw \in TwinEntries, first \in Collections :
          /\ ~present => own = {}
          /\ srcDirs = IF present THEN { title } ELSE {}
          /\ srcFiles = [ t \in Titles |-> IF t = title THEN own ELSE {} ]
          /\ twin = [ t \in Titles |-> IF t = title THEN tw ELSE TwinNone ]
          /\ scanOrder = IF first = Actor THEN << Actor, Actor2 >>
                                          ELSE << Actor2, Actor >>
          /\ dstDirs = { first_char(title) }
          /\ dst = [ e \in Keys \X Titles |->
                        IF e = << first_char(title), title >>
                        THEN DstEmpty ELSE DstNone ]
    /\ dirconf = [ r \in { SrcRoot } |-> DstRoot ]
    /\ rev_dirconf = [ r \in { DstRoot } |-> SrcRoot ]
    /\ synced_folders = {}
    /\ lock = "free"
    /\ srcEvents = {}
    /\ pc = [ t \in Threads |-> "idle" ]
    /\ loc = [ t \in Threads |-> Loc0 ]
    /\ nfail = 0
    /\ nops = 0
    /\ nsync = 0
    /\ gone = [ t \in Titles |-> FALSE ]
    /\ lastPass = [ t \in Titles |-> NoPass ]
    /\ quiet = TRUE
    /\ cname = << >>
    /\ ckey = ""
    /\ backLinks = {}
    /\ dstEvents = {}
    /\ dpc = "idle"
    /\ dloc = DLoc0
    /\ seen = {}
    /\ routed = "nothing"
    /\ InitConfIdle

NextBack ==
    \/ \E key \in Keys, title \in Titles, name \in PutNames :
          PutDestFile(key, title, name)
    \/ \E key \in Keys, title \in Titles, name \in PutNames :
          RepeatDestEvent(key, title, name)
    \/ BackEngine

SpecBack == InitBack /\ [][NextBack]_vars

(***************************************************************************)
(* Reconfiguration and shutdown: init_plugin (lines 76-137) and            *)
(* stop_service (lines 391-398)                                            *)
(***************************************************************************)

\* The roots of a second mapped pair.  No tree is modelled below them.
SrcRoot2 == "SRC2"
DstRoot2 == "DST2"

\* monitor_dirs of the configuration init_plugin is given: two mapping lines.
ConfigLines == << << SrcRoot, DstRoot >>, << SrcRoot2, DstRoot2 >> >>

\* How often init_plugin or stop_service is entered in one behaviour.
MaxReconfigs == 1

\* _dirconf and _rev_dirconf after the first k mapping lines.
TableOf(k) ==
    [ r \in { ConfigLines[i][1] : i \in 1..k } |->
         (CHOOSE i \in 1..k : ConfigLines[i][1] = r) ]
DirconfOf(k) == [ r \in DOMAIN TableOf(k) |-> ConfigLines[TableOf(k)[r]][2] ]
RevDirconfOf(k) ==
    [ r \in { ConfigLines[i][2] : i \in 1..k } |->
         ConfigLines[CHOOSE i \in 1..k : ConfigLines[i][2] = r][1] ]

\* Lines 81-91: both tables are replaced by empty ones and the Dedup Cache
\* is cleared, outside the lock; the configuration is read.  Line 93 enters
\* stop_service.
init_plugin_reset ==
    /\ ipc = "idle"
    /\ nconf < MaxReconfigs
    /\ nconf' = nconf + 1
    /\ dirconf' = DirconfOf(0)
    /\ rev_dirconf' = RevDirconfOf(0)
    /\ synced_folders' = {}
    /\ lines' = ConfigLines
    /\ tostop' = observer
    /\ ipc' = "ss_loop"
    /\ UNCHANGED << fsVars, lock, srcEvents, pc, loc, nfail, histVars,
                    boundVars, clsVars, backVars, observer, watchers, targets >>

\* The host calls stop_service by itself, when the plugin is unloaded.
stop_service_call ==
    /\ ipc = "idle"
    /\ nconf < MaxReconfigs
    /\ nconf' = nconf + 1
    /\ tostop' = observer
    /\ ipc' = "ss_loop"
    /\ UNCHANGED << fsVars, cfgVars, synced_folders, lock, srcEvents, pc, loc,
                    nfail, histVars, boundVars, clsVars, backVars, observer,
                    watchers, lines, targets >>

\* What stop_service leaves of a watcher: obs.stop() and obs.join() go
\* through, or one of them raises.  A raising stop() leaves the watcher
\* delivering; join() raises on a watcher whose start() never went through.
StopOutcomes(w) ==
    IF ~w.started
    THEN { [ w EXCEPT !.tried = TRUE, !.raised = TRUE ] }
    ELSE { [ w EXCEPT !.tried = TRUE, !.alive = FALSE ],
           [ w EXCEPT !.tried = TRUE, !.raised = TRUE ],
           [ w EXCEPT !.tried = TRUE, !.raised = TRUE, !.alive = FALSE ] }

\* The try of lines 393-394 around the whole loop instead of inside it: the
\* first raise ends the loop.
stop_service_next_abort(out) == IF out.raised THEN << >> ELSE Tail(tostop)
\* Lines 392-394: the try and its except: pass are inside the loop, so
\* whatever the outcome the loop goes on with the next watcher.
stop_service_next(out) == Tail(tostop)

\* Lines 392-394 for one watcher: try: obs.stop(); obs.join() / except: pass.
stop_service_obs(out) ==
    /\ ipc = "ss_loop"
    /\ tostop # << >>
    /\ out \in StopOutcomes(watchers[Head(tostop)])
    /\ watchers' = [ watchers EXCEPT ![Head(tostop)] = out ]
    /\ tostop' = stop_service_next(out)
    /\ UNCHANGED << fsVars, cfgVars, synced_folders, lock, srcEvents, pc, loc,
                    nfail, histVars, boundVars, clsVars, backVars, ipc, nconf,
                    observer, lines, targets >>

\* Lines 395-398, after the loop: self._observer = [].  stop_service returns
\* to init_plugin when it was called at line 93.
stop_service_clear ==
    /\ ipc = "ss_loop"
    /\ tostop = << >>
    /\ observer' = << >>
    /\ ipc' = IF lines # << >> THEN "ip_line" ELSE "idle"
    /\ UNCHANGED << fsVars, cfgVars, synced_folders, lock, srcEvents, pc, loc,
                    nfail, histVars, boundVars, clsVars, backVars, nconf,
                    watchers, lines, targets, tostop >>

\* Lines 97-115 for one mapping line: the pair is put into both tables.
init_plugin_line ==
    /\ ipc = "ip_line"
    /\ lines # << >>
    /\ LET k == Len(ConfigLines) - Len(lines) + 1
       IN /\ dirconf' = DirconfOf(k)
          /\ rev_dirconf' = RevDirconfOf(k)
    /\ targets' = Head(lines)
    /\ lines' = Tail(lines)
    /\ ipc' = "ip_watch"
    /\ UNCHANGED << fsVars, synced_folders, lock, srcEvents, pc, loc, nfail,
                    histVars, boundVars, clsVars, backVars, nconf, observer,
                    watchers, tostop >>

\* What lines 119-132 can do for one root: the root does not exist or the
\* observer cannot be made (nothing is registered); the observer is appended
\* to _observer at line 127 and schedule() or start() raises; or it is
\* appended and starts.
WatchOutcomes == { "skipped", "unstarted", "started" }

\* Lines 119-132 for one root of the pair.
init_plugin_watch(res) ==
    /\ ipc = "ip_watch"
    /\ targets # << >>
    /\ LET w == WatcherOf(nconf, Head(targets))
           made(rec) == [ x \in DOMAIN watchers \cup { w } |->
                             IF x = w THEN rec ELSE watchers[x] ]
       IN IF res = "skipped"
          THEN UNCHANGED << observer, watchers >>
          ELSE /\ observer' = Append(observer, w)
               /\ watchers' = made(IF res = "started" THEN Running ELSE NotStarted)
    /\ targets' = Tail(targets)
    /\ ipc' = IF Tail(targets) = << >> THEN "ip_line" ELSE "ip_watch"
    /\ UNCHANGED << fsVars, cfgVars, synced_folders, lock, srcEvents, pc, loc,
                    nfail, histVars, boundVars, clsVars, backVars, nconf,
                    lines, tostop >>

\* Lines 134-137, after the last mapping line: with onlyonce set, sync_all is
\* started on a thread of its own.
init_plugin_onlyonce ==
    /\ ipc = "ip_line"
    /\ lines = << >>
    /\ ipc' = "idle"
    /\ \/ UNCHANGED << pc, nsync >>
       \/ /\ pc[RunOnceThread] = "idle"
          /\ nsync < MaxSyncRuns
          /\ nsync' = nsync + 1
          /\ pc' = [ pc EXCEPT ![RunOnceThread] = "sa_clear" ]
    /\ UNCHANGED << fsVars, cfgVars, synced_folders, lock, srcEvents, loc,
                    nfail, nops, histVars, clsVars, backVars, nconf, observer,
                    watchers, lines, targets, tostop >>

\* The records of all watchers in every condition.
WatcherRecords ==
    [ started : BOOLEAN, alive : BOOLEAN, tried : BOOLEAN, raised : BOOLEAN ]

\* init_plugin and stop_service with every outcome of stopping and starting
\* a watcher.
Reconfigure ==
    \/ init_plugin_reset
    \/ stop_service_call
    \/ \E out \in WatcherRecords : stop_service_obs(out)
    \/ stop_service_clear
    \/ init_plugin_line
    \/ \E res \in WatchOutcomes : init_plugin_watch(res)
    \/ init_plugin_onlyonce

\* init_plugin when every watcher stops and starts as asked.
ReconfigureClean ==
    \/ init_plugin_reset
    \/ \E out \in WatcherRecords : ~out.raised /\ stop_service_obs(out)
    \/ stop_service_clear
    \/ init_plugin_line
    \/ init_plugin_watch("started")
    \/ init_plugin_onlyonce

\* One complete title folder is in the source tree, nothing is mirrored yet,
\* the first run of init_plugin has mapped one pair and started its watchers.
InitConfig ==
    /\ srcDirs = { T_ABC }
    /\ srcFiles = [ t \in Titles |-> IF t = T_ABC
                                     THEN { F_b_strm, F_b_nfo } \cup Images
                                     ELSE {} ]
    /\ dstDirs = {}
    /\ dst = [ e \in Keys \X Titles |-> DstNone ]
    /\ dirconf = DirconfOf(1)
    /\ rev_dirconf = RevDirconfOf(1)
    /\ synced_folders = {}
    /\ lock = "free"
    /\ srcEvents = {}
    /\ pc = [ t \in Threads |-> "idle" ]
    /\ loc = [ t \in Threads |-> Loc0 ]
    /\ nfail = MaxFailures
    /\ nops = MaxOutsideChanges
    /\ nsync = MaxSyncRuns - 1
    /\ gone = [ t \in Titles |-> FALSE ]
    /\ lastPass = [ t \in Titles |-> NoPass ]
    /\ quiet = TRUE
    /\ cname = << >>
    /\ ckey = ""
    /\ InitBackIdle
    /\ InitConfIdle

NextConfig ==
    \/ ReconfigureClean
    \/ NextReady

SpecConfig == InitConfig /\ [][NextConfig]_vars

\* The two watchers of the first run, each started or only registered.
FirstWatchers ==
    [ { WatcherOf(0, SrcRoot), WatcherOf(0, DstRoot) } -> { Running, NotStarted } ]

\* The state after a first run of init_plugin in which each of the two
\* watchers started or was registered without starting; the trees are empty.
InitShutdown ==
    /\ srcDirs = {}
    /\ srcFiles = [ t \in Titles |-> {} ]
    /\ dstDirs = {}
    /\ dst = [ e \in Keys \X Titles |-> DstNone ]
    /\ dirconf = DirconfOf(1)
    /\ rev_dirconf = RevDirconfOf(1)
    /\ synced_folders = {}
    /\ lock = "free"
    /\ srcEvents = {}
    /\ pc = [ t \in Threads |-> "idle" ]
    /\ loc = [ t \in Threads |-> Loc0 ]
    /\ nfail = 0
    /\ nops = 0
    /\ nsync = 0
    /\ gone = [ t \in Titles |-> FALSE ]
    /\ lastPass = [ t \in Titles |-> NoPass ]
    /\ quiet = TRUE
    /\ cname = << >>
    /\ ckey = ""
    /\ InitBackIdle
    /\ ipc = "idle"
    /\ nconf = 0
    /\ observer = << WatcherOf(0, SrcRoot), WatcherOf(0, DstRoot) >>
    /\ watchers \in FirstWatchers
    /\ lines = << >>
    /\ targets = << >>
    /\ tostop = << >>

NextShutdown == Reconfigure

SpecShutdown == InitShutdown /\ [][NextShutdown]_vars

(***************************************************************************)
(* Event routing: FileMonitorHandler (lines 27-43) and event_handler       *)
(* (lines 139-150) for both observers, while init_plugin may run           *)
(***************************************************************************)

\* A file put from outside into a destination title folder is deleted;
\* on_deleted is queued for it with is_directory = False.
RemoveDestFile(key, title, name) ==
    /\ dst[<< key, title >>].kind = "dir"
    /\ name \in dst[<< key, title >>].ext
    /\ dst' = [ dst EXCEPT ![<< key, title >>].ext = @ \ { name } ]
    /\ dstEvents' = dstEvents \cup { DeletedEvent(<< key, title, name >>, FALSE) }
    /\ lastPass' = [ lastPass EXCEPT ![title] = NoPass ]
    /\ Disturb
    /\ UNCHANGED << srcDirs, srcFiles, dstDirs, cfgVars, synced_folders, lock,
                    srcEvents, pc, loc, nfail, gone, clsVars, twin, backLinks,
                    scanOrder, dpc, dloc, seen, routed, confVars >>

\* on_created / on_moved is queued for a destination title folder, with
\* is_directory = True.
DestFolderEvent(key, title) ==
    /\ dst[<< key, title >>].kind = "dir"
    /\ CreatedEvent(<< key, title >>, TRUE) \notin dstEvents
    /\ dstEvents' = dstEvents \cup { CreatedEvent(<< key, title >>, TRUE) }
    /\ UNCHANGED << fsVars, cfgVars, synced_folders, lock, srcEvents, pc, loc,
                    nfail, histVars, boundVars, clsVars, twin, backLinks,
                    scanOrder, dpc, dloc, seen, routed, confVars >>

\* The source tree is empty or holds one complete title folder; the
\* destination holds the title's mirror with one sidecar put there from
\* outside; the first run of init_plugin has mapped one pair.
InitRoute ==
    /\ \E present \in BOOLEAN :
          /\ srcDirs = IF present THEN { T_ABC } ELSE {}
          /\ srcFiles = [ t \in Titles |-> IF present /\ t = T_ABC
                                           THEN { F_b_strm, F_b_nfo } \cup Images
                                           ELSE {} ]
    /\ dstDirs = { first_char(T_ABC) }
    /\ dst = [ e \in Keys \X Titles |->
                  IF e = << first_char(T_ABC), T_ABC >>
                  THEN [ kind |-> "dir", links |-> {}, ext |-> { F_meta_json } ]
                  ELSE DstNone ]
    /\ dirconf = DirconfOf(1)
    /\ rev_dirconf = RevDirconfOf(1)
    /\ synced_folders = {}
    /\ lock = "free"
    /\ srcEvents = {}
    /\ pc = [ t \in Threads |-> "idle" ]
    /\ loc = [ t \in Threads |-> Loc0 ]
    /\ nfail = MaxFailures
    /\ nops = MaxOutsideChanges - 1
    /\ nsync = MaxSyncRuns
    /\ gone = [ t \in Titles |-> FALSE ]
    /\ lastPass = [ t \in Titles |-> NoPass ]
    /\ quiet = TRUE
    /\ cname = << >>
    /\ ckey = ""
    /\ InitBackIdle
    /\ InitConfIdle

NextRoute ==
    \/ ReconfigureClean
    \/ \E title \in Titles, content \in StagedContents : PutFolder(title, content)
    \/ \E title \in Titles : FileEvent(title)
    \/ \E title \in Titles : RemoveFolder(title)
    \/ \E key \in Keys, title \in Titles, name \in PutNames :
          PutDestFile(key, title, name)
    \/ \E key \in Keys, title \in Titles, name \in PutNames :
          RemoveDestFile(key, title, name)
    \/ \E key \in Keys, title \in Titles : DestFolderEvent(key, title)
    \/ \E e \in srcEvents : event_handler(Watcher, e)
    \/ handle_src_file_check(Watcher)
    \/ handle_src_file_lock(Watcher)
    \/ handle_src_file_exists(Watcher)
    \/ handle_src_file_eval(Watcher)
    \/ process_forward_link_mkdir(Watcher)
    \/ process_forward_link_glob(Watcher)
    \/ process_forward_link_item(Watcher)
    \/ handle_src_file_add(Watcher)
    \/ handle_src_file_exit(Watcher)
    \/ handle_delete_cache(Watcher)
    \/ handle_delete_remove(Watcher)
    \/ handle_delete_list(Watcher)
    \/ handle_delete_rm(Watcher)
    \/ handle_delete_return(Watcher)
    \/ BackEngine
    \/ handle_delete_root

SpecRoute == InitRoute /\ [][NextRoute]_vars

(***************************************************************************)
(* Progress: both observers and sync_all compete for the lock, each thread *)
(* keeps running, and only finitely many changes come from outside         *)
(***************************************************************************)

\* The steps of one thread that runs __handle_src_file, __handle_delete or
\* sync_all, once it has been started.
StepOf(t) ==
    \/ \E e \in srcEvents : event_handler(t, e)
    \/ handle_src_file_check(t)
    \/ handle_src_file_lock(t)
    \/ handle_src_file_exists(t)
    \/ handle_src_file_eval(t)
    \/ process_forward_link_mkdir(t)
    \/ process_forward_link_glob(t)
    \/ process_forward_link_item(t)
    \/ handle_src_file_add(t)
    \/ handle_src_file_exit(t)
    \/ handle_delete_cache(t)
    \/ handle_delete_remove(t)
    \/ handle_delete_list(t)
    \/ handle_delete_rm(t)
    \/ handle_delete_return(t)
    \/ sync_all_clear(t)
    \/ sync_all_scan(t)
    \/ sync_all_next(t)
    \/ sync_all_done(t)

\* One title folder with a creation event of one of its files queued, its
\* mirror holding a sidecar put there from outside with its creation event
\* queued, one run of sync_all and one outside change to come.
InitLive ==
    /\ \E content \in StagedContents :
          srcFiles = [ t \in Titles |-> IF t = T_ABC THEN content ELSE {} ]
    /\ srcDirs = { T_ABC }
    /\ dstDirs = { first_char(T_ABC) }
    /\ dst = [ e \in Keys \X Titles |->
                  IF e = << first_char(T_ABC), T_ABC >>
                  THEN [ kind |-> "dir", links |-> {}, ext |-> { F_meta_json } ]
                  ELSE DstNone ]
    /\ dirconf = DirconfOf(1)
    /\ rev_dirconf = RevDirconfOf(1)
    /\ synced_folders = {}
    /\ lock = "free"
    /\ srcEvents = { CreatedEvent(FolderPath(T_ABC) \o << F_b_nfo >>, FALSE) }
    /\ pc = [ t \in Threads |-> "idle" ]
    /\ loc = [ t \in Threads |-> Loc0 ]
    /\ nfail = 0
    /\ nops = MaxOutsideChanges - 1
    /\ nsync = MaxSyncRuns - 1
    /\ gone = [ t \in Titles |-> FALSE ]
    /\ lastPass = [ t \in Titles |-> NoPass ]
    /\ quiet = TRUE
    /\ cname = << >>
    /\ ckey = ""
    /\ twin = [ t \in Titles |-> TwinNone ]
    /\ backLinks = {}
    /\ scanOrder = << Actor, Actor2 >>
    /\ dstEvents = { CreatedEvent(<< first_char(T_ABC), T_ABC, F_meta_json >>, FALSE) }
    /\ dpc = "idle"
    /\ dloc = DLoc0
    /\ seen = {}
    /\ routed = "nothing"
    /\ InitConfIdle

NextLive ==
    \/ \E title \in Titles : RemoveFolder(title)
    \/ \E t \in Syncers : sync_all_start(t)
    \/ \E t \in Threads : StepOf(t)
    \/ BackEngine

\* Every thread that can take a step takes one in the end: the threads are
\* scheduled by the operating system and every filesystem call returns.
FairLive ==
    /\ \A t \in Threads : WF_vars(StepOf(t))
    /\ WF_vars(BackEngine)

SpecLive == InitLive /\ [][NextLive]_vars /\ FairLive

(***************************************************************************)
(* Both directions together: forward links put files below the watched     *)
(* destination root, back-links put files below the watched source root,   *)
(* and nothing changes the trees from outside                              *)
(***************************************************************************)

\* The files of the source title folder at the start: a complete folder or
\* one that lacks an image, with or without sidecars of its own.
LoopContents ==
    { base \cup own : base \in StagedContents, own \in SUBSET JsonNames }

\* The mirror at the start: none, or a folder with sidecars put there.
LoopMirrors ==
    { DstNone } \cup { [ kind |-> "dir", links |-> {}, ext |-> x ] :
                          x \in SUBSET JsonNames }

\* The same title in the second collection at the start: absent, or an empty
\* folder.
LoopTwins == { TwinNone, [ kind |-> "dir", files |-> {} ] }

\* A finite tree on both sides, with the creation events of its files still
\* to be dispatched: one event for the source folder (the events of its files
\* differ in nothing the handler reads) and one for every destination sidecar.
InitLoop ==
    /\ \E content \in LoopContents, mirror \in LoopMirrors,
          tw \in LoopTwins, first \in Collections :
          /\ srcDirs = { T_ABC }
          /\ srcFiles = [ t \in Titles |-> IF t = T_ABC THEN content ELSE {} ]
          /\ twin = [ t \in Titles |-> IF t = T_ABC THEN tw ELSE TwinNone ]
          /\ scanOrder = IF first = Actor THEN << Actor, Actor2 >>
                                          ELSE << Actor2, Actor >>
          /\ dstDirs = IF mirror = DstNone THEN {} ELSE { first_char(T_ABC) }
          /\ dst = [ e \in Keys \X Titles |->
                        IF e = << first_char(T_ABC), T_ABC >>
                        THEN mirror ELSE DstNone ]
          /\ srcEvents =
                { CreatedEvent(FolderPath(T_ABC) \o << LexMin(content) >>, FALSE) }
          /\ dstEvents =
                { CreatedEvent(<< first_char(T_ABC), T_ABC, n >>, FALSE) :
                     n \in mirror.ext }
    /\ dirconf = DirconfOf(1)
    /\ rev_dirconf = RevDirconfOf(1)
    /\ synced_folders = {}
    /\ lock = "free"
    /\ pc = [ t \in Threads |-> "idle" ]
    /\ loc = [ t \in Threads |-> Loc0 ]
    /\ nfail = 0
    /\ nops = 0
    /\ nsync = 0
    /\ gone = [ t \in Titles |-> FALSE ]
    /\ lastPass = [ t \in Titles |-> NoPass ]
    /\ quiet = TRUE
    /\ cname = << >>
    /\ ckey = ""
    /\ backLinks = {}
    /\ dpc = "idle"
    /\ dloc = DLoc0
    /\ seen = {}
    /\ routed = "nothing"
    /\ InitConfIdle

\* The steps of the source root's observer thread on creation events.
SourceObserver ==
    \/ \E e \in srcEvents : event_handler(Watcher, e)
    \/ handle_src_file_check(Watcher)
    \/ handle_src_file_lock(Watcher)
    \/ handle_src_file_exists(Watcher)
    \/ handle_src_file_eval(Watcher)
    \/ process_forward_link_mkdir(Watcher)
    \/ process_forward_link_glob(Watcher)
    \/ process_forward_link_item(Watcher)
    \/ handle_src_file_add(Watcher)
    \/ handle_src_file_exit(Watcher)

NextLoop == SourceObserver \/ BackEngine

\* Both observer threads keep running.
FairLoop == WF_vars(SourceObserver) /\ WF_vars(BackEngine)

SpecLoop == InitLoop /\ [][NextLoop]_vars /\ FairLoop

(***************************************************************************)
(* Every handler together: both observers, deletions and sync_all, with    *)
(* changes from outside on both sides                                      *)
(***************************************************************************)

NextAll ==
    \/ NextLive
    \/ \E key \in Keys, title \in Titles, name \in PutNames :
          PutDestFile(key, title, name)

SpecAll == InitLive /\ [][NextAll]_vars

(***************************************************************************)
(* Properties                                                              *)
(***************************************************************************)

\* The positions inside the with block of __handle_src_file.
LockedPcs == { "hs_exists", "hs_eval", "fl_mkdir", "fl_glob", "fl_loop", "hs_exit" }


\* A thread is inside a mutating operation: forward linking, deletion
\* propagation, or the clear of the Dedup Cache.
Mutating(t) == pc[t] \in LockedPcs \cup DeletePcs \cup { "sa_clear" }

\* C1: every mutating operation (forward linking, deletion propagation, every
\* add, remove and clear of the Dedup Cache) runs while its thread holds the
\* lock, so at most one of them is in progress at a time.
C1_MutationsHoldLock ==
    /\ \A t \in Threads : Mutating(t) => lock = t
    /\ \A t1, t2 \in Threads : Mutating(t1) /\ Mutating(t2) => t1 = t2

\* A thread is inside sync_all, from its entry to its return.
InSyncAll(t) == t \in Syncers /\ pc[t] # "idle"

\* C2: sync_all never runs concurrently with itself: at most one pass is in
\* progress, whatever triggered it.
C2_OneSyncAtATime ==
    \A t1, t2 \in Syncers : InSyncAll(t1) /\ InSyncAll(t2) => t1 = t2

\* C3: once the delete handler for path P has done its work (nothing having
\* changed the trees from outside meanwhile), no entry named basename(P)
\* exists under any classification directory and P is not in the Dedup Cache.
C3_DeletePropagated ==
    \A t \in Threads :
        pc[t] = "hd_rm" /\ loc[t].subs = {} /\ quiet =>
            /\ \A key \in dstDirs :
                  dst[<< key, Name(loc[t].event_path) >>].kind = "none"
            /\ loc[t].event_path \notin synced_folders

\* The destination mirror of a cached folder exists.
MirrorExists(p) == dst[DestOf(p)].kind = "dir"

\* C4 as claimed: every member of the Dedup Cache has its destination mirror
\* DstRoot/key/name existing.
C4_MemberHasMirror ==
    \A p \in synced_folders : MirrorExists(p)

\* C4 as amended: every member of the Dedup Cache had its destination mirror
\* created by the pass that cached it; the mirror exists unless it was
\* deleted since its last mkdir, from outside or by the delete handler.
C4_MemberMirrorCreated ==
    \A p \in synced_folders : MirrorExists(p) \/ gone[Name(p)]

C4_Witness ==
    \E p \in synced_folders :
        /\ MirrorExists(p)
        /\ dst[DestOf(p)].links = srcFiles[Name(p)]
        /\ srcFiles[Name(p)] # {}

\* A step of __handle_src_file or of _process_forward_link.
SrcHandlerStep(t) ==
    \/ handle_src_file_check(t)
    \/ handle_src_file_lock(t)
    \/ handle_src_file_exists(t)
    \/ handle_src_file_eval(t)
    \/ process_forward_link_mkdir(t)
    \/ process_forward_link_glob(t)
    \/ process_forward_link_item(t)
    \/ handle_src_file_add(t)
    \/ handle_src_file_exit(t)

\* Every link of the destination tree is still there after the step.
LinksStay ==
    \A d \in DOMAIN dst : dst[d].links \subseteq dst'[d].links

\* C5: when the mkdir or a hardlink of a pass has failed, the handler ends by
\* returning (nothing is raised to the event source), it has not added the
\* folder to the Dedup Cache, and no step of the handler takes away a link
\* already made, so that a later event or pass finds the folder uncached.
C5_FailedPassNotCached ==
    /\ [](\A t \in Threads :
            loc[t].failed =>
                /\ ~loc[t].added
                /\ pc[t] = "hs_exit" => loc[t].outcome = "returned")
    /\ [][\A t \in Threads : SrcHandlerStep(t) => LinksStay]_vars

\* A pass has failed and a later one has linked every file and cached the folder.
C5_Witness ==
    /\ nfail > 0
    /\ \E p \in synced_folders :
          /\ MirrorExists(p)
          /\ srcFiles[Name(p)] # {}
          /\ dst[DestOf(p)].links = srcFiles[Name(p)]

\* C6: every key first_char returns is a single upper-case letter or the
\* fallback bucket; "ABC-123" gives "A", "FC2-PPV-7654321" gives "F" and
\* "99999" gives the fallback bucket.
C6_KeyIsLetterOrFallback ==
    ckey # "" =>
        /\ ckey = Fallback \/ IsUpperChar(ckey)
        /\ cname = T_ABC => ckey = "A"
        /\ cname = T_FC2 => ckey = "F"
        /\ cname = T_NUM => ckey = Fallback

\* A file of the listing has this name, or this extension, in any case.
HasNameCI(listing, name) == \E f \in listing : Lower(f) = name
HasExtCI(listing, ext) == \E f \in listing : EndsWith(Lower(f), ext)

\* The folder lacks one of the five required files.
MissingRequired(listing) ==
    \/ ~HasExtCI(listing, Ext_strm)
    \/ ~HasExtCI(listing, Ext_nfo)
    \/ ~HasNameCI(listing, F_poster)
    \/ ~HasNameCI(listing, F_fanart)
    \/ ~HasNameCI(listing, F_thumb)

\* C7: for a title folder that lacks one of the five required files, no event
\* and no reconciliation creates a destination directory or a hardlink, and
\* the folder is never in the Dedup Cache.
C7_IncompleteNeverLinked ==
    \A title \in srcDirs :
        MissingRequired(srcFiles[title]) =>
            /\ dstDirs = {}
            /\ \A key \in Keys : dst[<< key, title >>] = DstNone
            /\ FolderPath(title) \notin synced_folders
            /\ \A t \in Threads : loc[t].av_folder = FolderPath(title) => ~loc[t].ready

\* A handler has judged an incomplete folder that has a pointer file and a
\* metadata file and only lacks an image.
C7_Witness ==
    \E t \in Threads :
        /\ pc[t] = "hs_exit"
        /\ loc[t].listing # {}
        /\ loc[t].listing = srcFiles[Name(loc[t].av_folder)]
        /\ HasExtCI(loc[t].listing, Ext_strm)
        /\ HasExtCI(loc[t].listing, Ext_nfo)
        /\ MissingRequired(loc[t].listing)
        /\ ~loc[t].ready

\* The files of the listing with this extension in any case.
Candidates(listing, ext) == { f \in listing : EndsWith(Lower(f), ext) }

\* C8: a folder is judged ready only if the base name of its lexicographically
\* first pointer file equals, case-insensitively, the base name of its
\* lexicographically first metadata file.
C8_LexFirstDecides ==
    \A t \in Threads :
        loc[t].ready =>
            Lower(Stem(LexMin(Candidates(loc[t].listing, Ext_strm))))
                = Lower(Stem(LexMin(Candidates(loc[t].listing, Ext_nfo))))

\* The five required files are there in some case, and all pointer and
\* metadata files share one base name up to case.
ReadyCI(listing) ==
    /\ ~MissingRequired(listing)
    /\ \A f \in Candidates(listing, Ext_strm), g \in Candidates(listing, Ext_nfo) :
          Lower(Stem(f)) = Lower(Stem(g))

\* C9: a folder whose five required files are present under names that differ
\* from the canonical ones in letter case only is judged ready.
C9_CaseInsensitiveReady ==
    \A t \in Threads :
        pc[t] = "hs_exit" /\ loc[t].outcome = "returned"
            /\ ReadyCI(loc[t].listing) => loc[t].ready

\* A pass over the folder of thread t has handled every item.
PassOver(t) == pc[t] = "fl_loop" /\ loc[t].todo = {}

\* No step of _process_forward_link replaces or removes an existing entry:
\* an entry keeps its kind and its outside files, keeps its links, and a new
\* link takes no name that was there.
NoOverwrite ==
    \A d \in DOMAIN dst :
        /\ dst[d].kind # "none" => dst'[d].kind = dst[d].kind
        /\ dst[d].ext = dst'[d].ext
        /\ dst[d].links \subseteq dst'[d].links
        /\ (dst'[d].links \ dst[d].links) \cap dst[d].ext = {}

NeverOverwrites ==
    [][\A t \in Threads :
          (process_forward_link_mkdir(t) \/ process_forward_link_item(t))
              => NoOverwrite]_vars

\* C10 as claimed: a second pass over the same folder (no change of the
\* source folder or, from outside, of its mirror in between) leaves the mirror
\* as the first pass left it, and no pass replaces an existing entry.
C10_SecondPassIdentical ==
    /\ [](\A t \in Threads :
            PassOver(t) /\ lastPass[Name(loc[t].av_folder)].known =>
                dst[DestOf(loc[t].av_folder)] = lastPass[Name(loc[t].av_folder)].entry)
    /\ NeverOverwrites

\* C10 as amended: a second pass that follows a pass which returned success
\* leaves the mirror as that pass left it, and no pass replaces an existing
\* entry.
C10_SecondPassIdenticalAfterSuccess ==
    /\ [](\A t \in Threads :
            PassOver(t) /\ lastPass[Name(loc[t].av_folder)].known
                /\ lastPass[Name(loc[t].av_folder)].ok =>
                dst[DestOf(loc[t].av_folder)] = lastPass[Name(loc[t].av_folder)].entry)
    /\ NeverOverwrites

\* A second pass has ended after a successful first one that made links.
C10_Witness ==
    \E t \in Threads :
        /\ PassOver(t)
        /\ lastPass[Name(loc[t].av_folder)].known
        /\ lastPass[Name(loc[t].av_folder)].ok
        /\ lastPass[Name(loc[t].av_folder)].entry.links # {}


\* The first collection, in the order of the listing, that holds an entry
\* named like the title; the empty path when there is none.
FirstMatch(title) ==
    IF SrcEntryKind(scanOrder[1], title) # "none" THEN scanOrder[1]
    ELSE IF SrcEntryKind(scanOrder[2], title) # "none" THEN scanOrder[2]
    ELSE << >>

\* __handle_dest_file has handled a sidecar event and is about to return.
BackHandled == dpc = "hb_exit" /\ dloc.src_base = SrcRoot

\* The handler's step finds the sidecar's name taken in the title folder of
\* the first matching collection.
BackLinkThere ==
    /\ dloc.av_name \in Titles
    /\ FirstMatch(dloc.av_name) # << >>
    /\ Name(dloc.event_path) \in SrcEntryFiles(FirstMatch(dloc.av_name), dloc.av_name)

\* C11 as claimed: when a sidecar event has been handled and some collection
\* holds a folder named like the title, the file of that name in the first
\* matching collection is a hardlink to the destination file, in exactly one
\* collection; a second handling of the same event creates no link.
C11_BackLinkAlwaysMade ==
    BackHandled /\ (\E c \in Collections : SrcEntryKind(c, dloc.av_name) = "dir") =>
        /\ << FirstMatch(dloc.av_name), dloc.av_name, Name(dloc.event_path) >>
              \in backLinks
        /\ \A c \in Collections :
              << c, dloc.av_name, Name(dloc.event_path) >> \in backLinks
                  => c = FirstMatch(dloc.av_name)
        /\ dloc.event_path \in seen => ~dloc.linked

\* C11 as amended: a handled sidecar event has made a hardlink only in the
\* first matching collection; when that collection's entry is a folder and
\* the link call did not fail, a file of the sidecar's name is there (the new
\* hardlink, or the file that was there before, which is kept); and a
\* handling that finds the name taken creates no link and changes nothing.
C11_BackLinkFirstMatchOnly ==
    /\ [](\A c \in Collections, t \in Titles, n \in PutNames :
            << c, t, n >> \in backLinks =>
                c = FirstMatch(t) /\ n \in SrcEntryFiles(c, t))
    /\ [](BackHandled /\ FirstMatch(dloc.av_name) # << >> =>
            /\ dloc.linked =>
                  << FirstMatch(dloc.av_name), dloc.av_name, Name(dloc.event_path) >>
                      \in backLinks
            /\ SrcEntryKind(FirstMatch(dloc.av_name), dloc.av_name) = "dir"
                  /\ ~dloc.link_failed => BackLinkThere)
    /\ [][handle_dest_file_visit /\ BackLinkThere =>
            UNCHANGED << srcFiles, twin, backLinks, srcEvents >>]_vars

\* The same event is handled for the second time, the hardlink of the first
\* handling is there and no link is made, with the title folder in both
\* collections.
C11_Witness ==
    /\ BackHandled
    /\ dloc.event_path \in seen
    /\ ~dloc.linked
    /\ \A c \in Collections : SrcEntryKind(c, dloc.av_name) = "dir"
    /\ << FirstMatch(dloc.av_name), dloc.av_name, Name(dloc.event_path) >>
          \in backLinks


\* Readiness as the specification defines it: the five required files are
\* there in any letter case, and the lexicographically first pointer file
\* and the lexicographically first metadata file share their base name.
ReadyBySpec(listing) ==
    /\ ~MissingRequired(listing)
    /\ Lower(Stem(LexMin(Candidates(listing, Ext_strm))))
          = Lower(Stem(LexMin(Candidates(listing, Ext_nfo))))

\* Every pass of sync_all that was let in has returned.
SyncCompleted ==
    /\ nsync = MaxSyncRuns
    /\ \A t \in Syncers : pc[t] = "idle"

\* C12: starting from an empty destination and a quiescent source tree, when
\* sync_all has completed (no hardlink or mkdir call having failed), the
\* mirror of every ready title folder holds exactly one hardlink per regular
\* file of the folder, and the destination holds nothing else: nothing for
\* a folder that is not ready.
C12_ReconciliationResult ==
    SyncCompleted /\ nfail = 0 =>
        \A title \in srcDirs :
            /\ \A key \in Keys \ { first_char(title) } :
                  dst[<< key, title >>] = DstNone
            /\ dst[DestOf(FolderPath(title))] =
                  IF ReadyBySpec(srcFiles[title])
                  THEN [ kind |-> "dir", links |-> srcFiles[title], ext |-> {} ]
                  ELSE DstNone


CallerThreads == Syncers \ { RunOnceThread }

\* The requester of the scan on thread t cannot return before the scan has:
\* it is the thread that runs the scan.
CallerWaits(t) == t \in CallerThreads /\ InSyncAll(t)

\* C13: a request for full reconciliation returns to its caller without
\* waiting for the scan: no scan in progress keeps its requester from
\* returning.
C13_CallerNotBlocked ==
    \A t \in Syncers : InSyncAll(t) => ~CallerWaits(t)

\* The table pair as one run of init_plugin leaves it: the one mapped pair of
\* the first run, or every pair of ConfigLines.
CompleteTables ==
    { << DirconfOf(k), RevDirconfOf(k) >> : k \in { 1, Len(ConfigLines) } }

\* A step of a handler or of sync_all that reads _dirconf or _rev_dirconf:
\* the routing of a file event (lines 147-149), the destination lookup of
\* _process_forward_link (line 183), the root test of __handle_delete (lines
\* 223-224) and the iteration of sync_all (line 239).
ReadsTable ==
    \/ \E e \in srcEvents :
          e.kind = "created" /\ ~e.is_directory /\ event_handler(Watcher, e)
    \/ \E e \in dstEvents :
          e.kind = "created" /\ ~e.is_directory /\ event_handler_dest(e)
    \/ \E t \in Threads : process_forward_link_mkdir(t)
    \/ \E t \in Threads : handle_delete_cache(t)
    \/ \E t \in Syncers : sync_all_scan(t)

\* C14: reconfiguration replaces the Directory Mapping Table atomically: every
\* read of the table by an event handler or by a running full reconciliation
\* finds the complete table of one configuration, never an empty or a partly
\* filled one.
C14_TableSeenComplete ==
    [][ReadsTable => << dirconf, rev_dirconf >> \in CompleteTables]_vars

\* The watchers made by earlier runs of init_plugin than the current one.
EarlierWatchers == { w \in DOMAIN watchers : w[1] < nconf }

\* The watchers made by the current run of init_plugin.
NewWatchers == { w \in DOMAIN watchers : w[1] = nconf /\ nconf > 0 }

\* The watchers the loop of stop_service has still to reach.
StillToStop ==
    IF ipc = "ss_loop" THEN { tostop[i] : i \in 1..Len(tostop) } ELSE {}

\* C15: shutdown tolerates the failure of single watchers: once stop_service
\* is entered, every registered watcher gets its stop attempted, whether or
\* not the stop of a watcher before it raised; and init_plugin makes the
\* watchers of the new configuration only after that shutdown, when every
\* earlier watcher had its stop attempted and none of them is registered
\* any more.
C15_EveryWatcherStopAttempted ==
    /\ \A w \in EarlierWatchers : w \in StillToStop \/ watchers[w].tried
    /\ NewWatchers # {} =>
          \A w \in EarlierWatchers :
             /\ watchers[w].tried
             /\ \A i \in 1..Len(observer) : observer[i] # w

\* The stop of the first watcher raised, the second watcher's stop was made
\* all the same, and a watcher of the new configuration is running.
C15_Witness ==
    /\ watchers[WatcherOf(0, SrcRoot)].raised
    /\ watchers[WatcherOf(0, DstRoot)].tried
    /\ \E w \in NewWatchers : watchers[w].alive

\* event_handler discards the event e of the observer of the given root: it
\* is no deletion, and it is about a directory or the root is in neither
\* table.
Discarded(e, root) ==
    /\ e.kind # "deleted"
    /\ \/ e.is_directory
       \/ root \notin DOMAIN dirconf /\ root \notin DOMAIN rev_dirconf

\* Both trees and the Dedup Cache.
TreesAndCache == << fsVars, twin, backLinks, synced_folders >>

\* C16: a creation or move event of a directory, and any event but a deletion
\* whose watched root is neither a source root nor a destination root of the
\* table, is discarded: its handling is over at once and changes neither tree
\* nor the Dedup Cache.  A deletion event is passed to __handle_delete whether
\* it is about a directory or about a file.
C16_RoutingFrame ==
    /\ [][\A e \in srcEvents : event_handler(Watcher, e) =>
            /\ Discarded(e, SrcRoot) =>
                  UNCHANGED TreesAndCache /\ pc'[Watcher] = "idle"
            /\ e.kind = "deleted" =>
                  pc'[Watcher] = "hd_cache" /\ loc'[Watcher].event_path = e.path]_vars
    /\ [][\A e \in dstEvents : event_handler_dest(e) =>
            /\ Discarded(e, DstRoot) => UNCHANGED TreesAndCache /\ dpc' = "idle"
            /\ e.kind = "deleted" =>
                  dpc' = "hd_root" /\ dloc'.event_path = e.path]_vars

\* The destination observer has just dispatched an event of a file while
\* init_plugin had emptied both tables, and it was discarded; the source
\* observer has nothing left to dispatch and both are idle.
C16_Witness ==
    /\ routed = "unmapped"
    /\ dpc = "idle"
    /\ pc[Watcher] = "idle"
    /\ srcEvents = {}
    /\ DstRoot \notin DOMAIN rev_dirconf

\* A step of the observer thread's __handle_src_file that evaluates the
\* folder of the event (lines 163-175), makes or fills its mirror (lines
\* 190-199) or adds it to the Dedup Cache (line 177).
EvaluatesFolder ==
    \/ handle_src_file_eval(Watcher)
    \/ process_forward_link_mkdir(Watcher)
    \/ process_forward_link_item(Watcher)
    \/ handle_src_file_add(Watcher)

\* C17: while the path of a title folder is a member of the Dedup Cache, the
\* handling of a creation or move event of a file in that folder evaluates
\* nothing, makes no destination entry and leaves the cache as it is: the
\* folder is evaluated again only after its path was removed from the cache
\* or the cache was cleared.
C17_CachedFolderNotEvaluated ==
    [][EvaluatesFolder => loc[Watcher].av_folder \notin synced_folders]_vars

\* C18: the lock is held only by a thread inside the with block of a handler,
\* so it is released on every way out of it, a raised exception included; no
\* thread asks for the lock while it holds it; and every thread that waits
\* for the lock gets it in the end.
C18_WaitersGetLock ==
    /\ [](\A t \in Threads : lock = t => pc[t] \in LockedPcs)
    /\ [](lock = DestWatcher => dpc \in { "hb_scan", "hb_loop", "hb_exit" })
    /\ [](\A t \in Threads : pc[t] = "hs_lock" => lock # t)
    /\ [](dpc = "hb_lock" => lock # DestWatcher)
    /\ \A t \in Threads : (pc[t] = "hs_lock") ~> (lock = t)
    /\ (dpc = "hb_lock") ~> (lock = DestWatcher)

\* A thread waits for the lock while the thread that holds it is on its way
\* out of the with block with an exception.
C18_Witness ==
    \E t \in Threads, u \in Threads :
       /\ pc[t] = "hs_lock"
       /\ lock = u
       /\ pc[u] = "hs_exit"
       /\ loc[u].outcome = "raised"

\* Nothing is left to do: both queues are empty and both observers are idle.
Quiescent ==
    /\ srcEvents = {}
    /\ dstEvents = {}
    /\ pc[Watcher] = "idle"
    /\ dpc = "idle"

EngineStep ==
    \/ \E t \in Threads : StepOf(t)
    \/ BackEngine

IsSidecar(name) == EndsWith(Lower(name), Ext_json)

\* The step keeps every entry below the source root and adds at most
\* hardlinks of sidecars, at names that did not exist, in title folders that
\* exist.
SourceKept ==
    /\ srcDirs' = srcDirs
    /\ \A t \in Titles :
          /\ srcFiles[t] \subseteq srcFiles'[t]
          /\ \A n \in srcFiles'[t] \ srcFiles[t] :
                IsSidecar(n) /\ t \in srcDirs /\ << Actor, t, n >> \in backLinks'
          /\ twin'[t].kind = twin[t].kind
          /\ twin[t].files \subseteq twin'[t].files
          /\ \A n \in twin'[t].files \ twin[t].files :
                IsSidecar(n) /\ twin[t].kind = "dir" /\ << Actor2, t, n >> \in backLinks'
    /\ \A b \in backLinks' \ backLinks : b[3] \notin SrcEntryFiles(b[1], b[2])

\* What the step deletes below the destination root is a whole entry two
\* levels below it: no classification directory goes, and nothing goes from
\* inside an entry that stays.
DeletesAtLevelTwo ==
    /\ dstDirs \subseteq dstDirs'
    /\ \A e \in DOMAIN dst :
          \/ dst'[e] = DstNone
          \/ /\ dst[e].kind \in { "none", dst'[e].kind }
             /\ dst[e].links \subseteq dst'[e].links
             /\ dst[e].ext \subseteq dst'[e].ext

\* C20: the source tree is never damaged: no step of a handler or of sync_all
\* deletes, replaces or renames an entry below the source root; the only
\* change it makes there is a new hardlink of a sidecar at a name that did
\* not exist, in a title folder that exists.  Every deletion is of an entry
\* two levels below the destination root.
C20_SourceNeverDamaged ==
    [][EngineStep => SourceKept /\ DeletesAtLevelTwo]_vars

\* A sidecar was linked back into the source folder, the folder was deleted
\* from outside afterwards, and the delete handler has removed the mirror.
C20_Witness ==
    /\ << Actor, T_ABC, F_meta_json >> \in backLinks
    /\ T_ABC \notin srcDirs
    /\ dst[<< first_char(T_ABC), T_ABC >>] = DstNone
    /\ pc[Watcher] = "idle"
====
